---- MODULE Spec2Model ----
(***************************************************************************)
(* A model of the IYP query builder (src/iyp_query): the alias validator,  *)
(* the condition algebra, and IYPQueryBuilder's accumulate / compile       *)
(* methods.  One builder session is the state; every public method is an   *)
(* action.                                                                 *)
(*                                                                         *)
(* Text is modelled as a sequence of lines (the parts joined by "\n" in    *)
(* to_cypher), each line a keyword and a sequence of tokens.  Python       *)
(* strings that the code inspects character by character (filter values)   *)
(* are sequences of one-character strings; names that the code only        *)
(* compares or copies (aliases, kinds, fields) are atomic strings.         *)
(* A parameter name "param_N" is modelled by its number N.                 *)
(*                                                                         *)
(* The specifications run the same actions over different inputs:          *)
(* SpecMatch (find, with_relationship, to_cypher), SpecParams (filters and *)
(* conditions that carry values), Spec (every clause of the query),        *)
(* SpecGroup (grouping and aggregates), SpecCond (the condition            *)
(* combinators), SpecCount (count and to_cypher on one session), SpecDict  *)
(* (dictionary conditions), SpecFields (field references), SpecBounds      *)
(* (limit and skip), SpecOr, SpecOrder, SpecAlias, SpecAggregate and       *)
(* SpecKeys (one family of inputs each), and SpecTranslate, in which the   *)
(* CypherTranslationService of src/api drives a builder through a method   *)
(* chain.  SpecTraversal renders the TraversalStep of traversals.py, a     *)
(* pure function, from steps drawn in its initial states.                  *)
(***************************************************************************)
EXTENDS Integers, Sequences, FiniteSets, TLC

\* The fields of one IYPQueryBuilder (builder.py, __init__), the
\* _filter_params attribute that find adds to it, and what the latest call
\* handed back to its caller; then the CypherTranslationService
\* (translation_service.py): whether it holds a connection, and how far its
\* translate_method_chain has come through the chain it was given.
VARIABLES validator, query_parts, param_counter, relationships,
          root_alias, root_node_type, filter_params, last, translation

vars == <<validator, query_parts, param_counter, relationships,
          root_alias, root_node_type, filter_params, last, translation>>

(***************************************************************************)
(* Bounds of the model.                                                    *)
(***************************************************************************)
MaxMatch == 3
MaxAliases == 2
MaxConds == 2
MaxParams == 3

None == "None"

(***************************************************************************)
(* types.py                                                                *)
(***************************************************************************)
NodeType ==
    {"AS", "AtlasMeasurement", "AtlasProbe", "AuthoritativeNameServer",
     "BGPCollector", "BGPPrefix", "CaidaIXID", "CaidaOrgID", "Country",
     "DomainName", "Estimate", "Facility", "GeoPrefix", "HostName", "IP",
     "IXP", "Name", "OpaqueID", "Organization", "PeeringdbFacID",
     "PeeringdbIXID", "PeeringdbNetID", "PeeringdbOrgID", "PeeringLAN",
     "Point", "Prefix", "Ranking", "Resolver", "RDNSPrefix", "RIRPrefix",
     "RPKIPrefix", "Tag", "URL"}

RelationshipType ==
    {"ALIAS_OF", "ASSIGNED", "AVAILABLE", "CATEGORIZED", "CENSORED",
     "COUNTRY", "DEPENDS_ON", "EXTERNAL_ID", "LOCATED_IN", "MANAGED_BY",
     "MEMBER_OF", "NAME", "ORIGINATE", "PARENT", "PART_OF", "PEERS_WITH",
     "POPULATION", "QUERIED_FROM", "RANK", "RESERVED", "RESOLVES_TO",
     "ROUTE_ORIGIN_AUTHORIZATION", "SIBLING_OF", "TARGET", "WEBSITE"}

validate_node_type(node_type) == node_type \in NodeType

validate_relationship_type(rel_type) == rel_type \in RelationshipType

\* str.lower() on the node-kind names the builder derives aliases from.
lower(name) ==
    CASE name = "AS" -> "as"
      [] name = "Country" -> "country"
      [] name = "Organization" -> "organization"
      [] name = "Tag" -> "tag"
      [] name = "IP" -> "ip"
      [] name = "IXP" -> "ixp"
      [] name = "Name" -> "name"
      [] name = "Prefix" -> "prefix"
      [] OTHER -> name

(***************************************************************************)
(* Python values that travel as filter values and parameters.              *)
(***************************************************************************)
IntV(n) == [k |-> "int", n |-> n, s |-> <<>>]
StrV(s) == [k |-> "str", n |-> 0, s |-> s]
NoneV == [k |-> "none", n |-> 0, s |-> <<>>]
ListV(items) == [k |-> "list", n |-> 0, s |-> <<>>, items |-> items]

LowerLetters ==
    <<"a", "b", "c", "d", "e", "f", "g", "h", "i", "j", "k", "l", "m",
      "n", "o", "p", "q", "r", "s", "t", "u", "v", "w", "x", "y", "z">>
UpperLetters ==
    <<"A", "B", "C", "D", "E", "F", "G", "H", "I", "J", "K", "L", "M",
      "N", "O", "P", "Q", "R", "S", "T", "U", "V", "W", "X", "Y", "Z">>

\* str.upper(), character by character.
upper(s) ==
    [i \in 1..Len(s) |->
        IF \E j \in 1..Len(LowerLetters) : LowerLetters[j] = s[i]
        THEN UpperLetters[CHOOSE j \in 1..Len(LowerLetters) : LowerLetters[j] = s[i]]
        ELSE s[i]]

\* Python's `pattern in value` on strings.
contains(s, pattern) ==
    \E i \in 1..(Len(s) - Len(pattern) + 1) :
        SubSeq(s, i, i + Len(pattern) - 1) = pattern

(***************************************************************************)
(* validators.py                                                           *)
(***************************************************************************)
dangerous_patterns ==
    << <<"D","E","L","E","T","E">>, <<"C","R","E","A","T","E">>,
       <<"M","E","R","G","E">>, <<"S","E","T">>, <<"R","E","M","O","V","E">>,
       <<"D","E","T","A","C","H">>, <<"D","R","O","P">>, <<"C","A","L","L">>,
       <<"F","O","R","E","A","C","H">>, <<"L","O","A","D">>,
       <<"/","/">>, <<"/","*">>, <<"*","/">>, <<"-","-">> >>

\* TRUE when validate_cypher_injection returns, FALSE when it raises.
validate_cypher_injection(value) ==
    IF value.k = "str"
    THEN ~ \E i \in 1..Len(dangerous_patterns) :
               contains(upper(value.s), dangerous_patterns[i])
    ELSE TRUE

\* QueryValidator.__init__.  iter_order is the order in which Python
\* iterates the set defined_aliases (hash order, not registration order).
QueryValidator ==
    [defined_aliases |-> {}, node_types |-> <<>>, iter_order |-> <<>>]

\* set.add: the new element lands in a slot chosen by its hash; the
\* elements already present keep their relative order.
set_add_orders(order, alias) ==
    {SubSeq(order, 1, i) \o <<alias>> \o SubSeq(order, i + 1, Len(order)) :
        i \in 0..Len(order)}

\* register_alias raises when this is FALSE.
register_alias_ok_always(v, alias) == TRUE

register_alias_ok(v, alias) == alias \notin v.defined_aliases

\* The validator after a successful register_alias; order is the resulting
\* iteration order of the alias set.
register_alias(v, alias, node_type, order) ==
    [defined_aliases |-> v.defined_aliases \cup {alias},
     node_types |-> (alias :> node_type) @@ v.node_types,
     iter_order |-> order]

(***************************************************************************)
(* Text: tokens, and the join of token sequences.                          *)
(***************************************************************************)
Tok(t, s, n) == [t |-> t, s |-> s, n |-> n]
Sym(s) == Tok("sym", s, 0)
Kw(s) == Tok("kw", s, 0)
\* A field reference copied into the text.
FieldTok(field) == [t |-> "field", ref |-> field]
Param(n) == Tok("param", "$param_", n)
Num(n) == Tok("num", "", n)
\* A Python value formatted into the text itself.
Lit(value) == [t |-> "lit", s |-> "", n |-> 0, v |-> value]

Line(kw, body) == [kw |-> kw, body |-> body]

RECURSIVE join(_, _)
\* sep.join(parts), parts a sequence of token sequences.
join(sep, parts) ==
    IF parts = <<>> THEN <<>>
    ELSE IF Len(parts) = 1 THEN parts[1]
    ELSE parts[1] \o <<sep>> \o join(sep, Tail(parts))

\* dict.update(other)
update(d, other) == other @@ d

(***************************************************************************)
(* conditions.py                                                           *)
(***************************************************************************)
Q(field, operator, value) ==
    [type |-> "Q", field |-> field, operator |-> operator, value |-> value]
And(conditions) == [type |-> "And", conditions |-> conditions]
Or(conditions) == [type |-> "Or", conditions |-> conditions]
Not(condition) == [type |-> "Not", condition |-> condition]

\* What a to_cypher of a condition leaves behind: the fragment, its
\* parameters, the parameter counter as advanced, and whether it raised
\* (ValueError); a raise keeps the counter advances made before it.
Compiled(err, cypher, params, pc) ==
    [err |-> err, cypher |-> cypher, params |-> params, pc |-> pc]

Q_to_cypher_inline(q, pc) ==
    IF q.operator = None THEN Compiled(TRUE, <<>>, <<>>, pc)
    ELSE IF q.operator \in {"IS NULL", "IS NOT NULL"}
    THEN Compiled(FALSE, <<FieldTok(q.field), Kw(q.operator)>>, <<>>, pc)
    ELSE Compiled(FALSE, <<FieldTok(q.field), Kw(q.operator), Lit(q.value)>>,
                  <<>>, pc)

Q_to_cypher(q, pc) ==
    IF q.operator = None THEN Compiled(TRUE, <<>>, <<>>, pc)
    ELSE IF q.operator \in {"IS NULL", "IS NOT NULL"}
    THEN Compiled(FALSE, <<FieldTok(q.field), Kw(q.operator)>>, <<>>, pc)
    ELSE IF q.operator \in {"IN", "NOT IN"}
    THEN Compiled(FALSE, <<FieldTok(q.field), Kw(q.operator), Param(pc)>>,
                  pc :> q.value, pc + 1)
    ELSE Compiled(FALSE, <<FieldTok(q.field), Kw(q.operator), Param(pc)>>,
                  pc :> q.value, pc + 1)

RECURSIVE Condition_to_cypher(_, _)
RECURSIVE children_to_cypher(_, _, _, _)

\* The loop of And.to_cypher / Or.to_cypher over the children: the list of
\* parenthesised parts and the merged parameters.
children_to_cypher(conditions, pc, cypher_parts, all_params) ==
    IF conditions = <<>>
    THEN [err |-> FALSE, parts |-> cypher_parts, params |-> all_params, pc |-> pc]
    ELSE LET c == Condition_to_cypher(conditions[1], pc)
         IN IF c.err
            THEN [err |-> TRUE, parts |-> cypher_parts, params |-> all_params,
                  pc |-> c.pc]
            ELSE children_to_cypher(
                     Tail(conditions), c.pc,
                     Append(cypher_parts, <<Sym("(")>> \o c.cypher \o <<Sym(")")>>),
                     update(all_params, c.params))

And_to_cypher(cond, pc) ==
    IF cond.conditions = <<>> THEN Compiled(FALSE, <<Kw("true")>>, <<>>, pc)
    ELSE LET r == children_to_cypher(cond.conditions, pc, <<>>, <<>>)
         IN Compiled(r.err, join(Kw("AND"), r.parts), r.params, r.pc)

Or_to_cypher(cond, pc) ==
    IF cond.conditions = <<>> THEN Compiled(FALSE, <<Kw("false")>>, <<>>, pc)
    ELSE LET r == children_to_cypher(cond.conditions, pc, <<>>, <<>>)
         IN Compiled(r.err,
                     <<Sym("(")>> \o join(Kw("OR"), r.parts) \o <<Sym(")")>>,
                     r.params, r.pc)

Not_to_cypher_simplify(cond, pc) ==
    IF cond.condition.type = "Not"
    THEN Condition_to_cypher(cond.condition.condition, pc)
    ELSE LET c == Condition_to_cypher(cond.condition, pc)
         IN Compiled(c.err, <<Kw("NOT"), Sym("(")>> \o c.cypher \o <<Sym(")")>>,
                     c.params, c.pc)

Not_to_cypher(cond, pc) ==
    LET c == Condition_to_cypher(cond.condition, pc)
    IN Compiled(c.err, <<Kw("NOT"), Sym("(")>> \o c.cypher \o <<Sym(")")>>,
                c.params, c.pc)

\* Condition.to_cypher, dispatched on the class of the condition.
Condition_to_cypher(cond, pc) ==
    CASE cond.type = "Q" -> Q_to_cypher(cond, pc)
      [] cond.type = "And" -> And_to_cypher(cond, pc)
      [] cond.type = "Or" -> Or_to_cypher(cond, pc)
      [] cond.type = "Not" -> Not_to_cypher(cond, pc)

(***************************************************************************)
(* conditions.py: dict_to_condition.  A Python dict is the sequence of its *)
(* (key, value) items in insertion order; the keys of a condition          *)
(* dictionary are field references (sequences of pieces), the reserved     *)
(* keys 'AND', 'OR', 'NOT' being references of one piece.                  *)
(***************************************************************************)
DictV(items) == [k |-> "dict", n |-> 0, s |-> <<>>, items |-> items]

\* isinstance(value, dict)
isinstance_dict(value) == "k" \in DOMAIN value /\ value.k = "dict"

\* key in d
has_key(d, key) == \E i \in 1..Len(d.items) : d.items[i][1] = key

\* d[key]
get(d, key) == d.items[CHOOSE i \in 1..Len(d.items) : d.items[i][1] = key][2]

\* The if/elif chain over op: the operator of the Q it builds, None when
\* the chain reaches its else.
operator_of(op) ==
    CASE op = "=" -> "="
      [] op = "!=" -> "<>"
      [] op = "<" -> "<"
      [] op = "<=" -> "<="
      [] op = ">" -> ">"
      [] op = ">=" -> ">="
      [] op = "in" -> "IN"
      [] op = "not_in" -> "NOT IN"
      [] op = "contains" -> "CONTAINS"
      [] op = "starts_with" -> "STARTS WITH"
      [] op = "ends_with" -> "ENDS WITH"
      [] op = "regex" -> "=~"
      [] OTHER -> None

\* What dict_to_condition hands back: a condition, or the error it raises.
Converted(cond) == [err |-> "ok", cond |-> cond]
Failed(error) == [err |-> error, cond |-> [type |-> "none"]]

RECURSIVE dict_to_condition(_)
RECURSIVE dicts_to_conditions(_, _)
RECURSIVE items_loop(_)

\* [dict_to_condition(c) for c in list]: stops at the first that raises.
dicts_to_conditions(list, conditions) ==
    IF list = <<>> THEN [err |-> "ok", conditions |-> conditions]
    ELSE LET c == dict_to_condition(list[1])
         IN IF c.err # "ok" THEN [err |-> c.err, conditions |-> conditions]
            ELSE dicts_to_conditions(Tail(list), Append(conditions, c.cond))

\* The loop over condition_dict.items(): it returns (or raises) at the
\* first field whose value is no dictionary or is a dictionary with an
\* item, on the first item of that dictionary.
items_loop(items) ==
    IF items = <<>> THEN Failed("InvalidDictionary")
    ELSE LET field == items[1][1]
             value == items[1][2]
         IN IF isinstance_dict(value)
            THEN IF value.items = <<>> THEN items_loop(Tail(items))
                 ELSE IF operator_of(value.items[1][1]) = None
                 THEN Failed("UnknownOperator")
                 ELSE Converted(Q(field, operator_of(value.items[1][1]),
                                  value.items[1][2]))
            ELSE Converted(Q(field, "=", value))

dict_to_condition(condition_dict) ==
    IF has_key(condition_dict, <<"AND">>)
    THEN LET r == dicts_to_conditions(get(condition_dict, <<"AND">>).items, <<>>)
         IN IF r.err # "ok" THEN Failed(r.err) ELSE Converted(And(r.conditions))
    ELSE IF has_key(condition_dict, <<"OR">>)
    THEN LET r == dicts_to_conditions(get(condition_dict, <<"OR">>).items, <<>>)
         IN IF r.err # "ok" THEN Failed(r.err) ELSE Converted(Or(r.conditions))
    ELSE IF has_key(condition_dict, <<"NOT">>)
    THEN LET c == dict_to_condition(get(condition_dict, <<"NOT">>))
         IN IF c.err # "ok" THEN c ELSE Converted(Not(c.cond))
    ELSE items_loop(condition_dict.items)

(***************************************************************************)
(* builder.py: RelationshipSpec, QueryPart, IYPQueryBuilder.__init__       *)
(***************************************************************************)
RelationshipSpec(relationship_type, to_node_type, from_node_alias, to_node_alias, direction, hops) ==
    [relationship_type |-> relationship_type, to_node_type |-> to_node_type,
     from_node_alias |-> from_node_alias, to_node_alias |-> to_node_alias,
     direction |-> direction, hops |-> hops]

\* Optional[int] fields: <<>> is None, <<n>> is the integer n.
QueryPart ==
    [match_clauses |-> <<>>, where_conditions |-> <<>>, return_fields |-> <<>>,
     order_by |-> <<>>, group_by |-> <<>>, having_conditions |-> <<>>,
     limit |-> <<>>, skip |-> <<>>]

\* What the latest call handed back to the caller: the method, "ok" or the
\* error it raised, and for to_cypher the (text, parameters) pair.
Returned(op) == [op |-> op, status |-> "ok", text |-> <<>>, params |-> <<>>]
Raised(op, error) == [op |-> op, status |-> error, text |-> <<>>, params |-> <<>>]

\* CypherTranslationService.__init__: iyp is the connection (FALSE when
\* connecting failed); no translation is under way.
CypherTranslationService(iyp) ==
    [iyp |-> iyp, at |-> "idle", methods |-> <<>>, params |-> DictV(<<>>),
     query |-> "none", success |-> FALSE]

\* A new IYPQueryBuilder.
new_builder ==
    /\ validator = QueryValidator
    /\ query_parts = QueryPart
    /\ param_counter = 0
    /\ relationships = <<>>
    /\ root_alias = None
    /\ root_node_type = None
    /\ filter_params = <<>>
    /\ last = Returned("__init__")

Init ==
    /\ new_builder
    /\ translation = CypherTranslationService(TRUE)

(***************************************************************************)
(* IYPQueryBuilder.find                                                    *)
(***************************************************************************)
RECURSIVE unique_alias(_, _, _, _)
\* The while loop that appends _1, _2, ... until the alias is free.
unique_alias(base_alias, alias, counter, defined) ==
    IF alias \in defined
    THEN unique_alias(base_alias, base_alias \o "_" \o ToString(counter),
                      counter + 1, defined)
    ELSE alias

RECURSIVE filter_loop(_, _, _, _)
\* The loop over **filters (a sequence of <<prop, value>>): raises at the
\* first value the injection guard rejects, keeping the counter advances
\* made for the filters before it.
filter_loop(filters, pc, filter_params_, filter_parts) ==
    IF filters = <<>>
    THEN [err |-> FALSE, pc |-> pc, params |-> filter_params_, parts |-> filter_parts]
    ELSE IF ~validate_cypher_injection(filters[1][2])
    THEN [err |-> TRUE, pc |-> pc, params |-> filter_params_, parts |-> filter_parts]
    ELSE filter_loop(
             Tail(filters), pc + 1, update(filter_params_, pc :> filters[1][2]),
             Append(filter_parts,
                    <<Tok("prop", filters[1][1], 0), Sym(":"), Param(pc)>>))

root_pattern(alias, node_type, filter_parts) ==
    <<Sym("("), Tok("alias", alias, 0), Sym(":"), Tok("label", node_type, 0)>>
    \o (IF filter_parts # <<>>
        THEN <<Sym("{")>> \o join(Sym(","), filter_parts) \o <<Sym("}")>>
        ELSE <<>>)
    \o <<Sym(")")>>

find(node_type, alias_arg, filters) ==
    IF ~validate_node_type(node_type)
    THEN /\ last' = Raised("find", "UnknownKind")
         /\ UNCHANGED <<validator, query_parts, param_counter, relationships,
                        root_alias, root_node_type, filter_params>>
    ELSE
    LET alias == IF alias_arg = None
                 THEN unique_alias(lower(node_type), lower(node_type), 1,
                                   validator.defined_aliases)
                 ELSE alias_arg
    IN
    IF ~register_alias_ok(validator, alias)
    THEN /\ last' = Raised("find", "DuplicateAlias")
         /\ UNCHANGED <<validator, query_parts, param_counter, relationships,
                        root_alias, root_node_type, filter_params>>
    ELSE
    LET f == filter_loop(filters, param_counter, <<>>, <<>>)
    IN
    /\ Cardinality(validator.defined_aliases) < MaxAliases
    /\ f.pc <= MaxParams
    /\ \E order \in set_add_orders(validator.iter_order, alias) :
           validator' = register_alias(validator, alias, node_type, order)
    /\ root_alias' = alias
    /\ root_node_type' = node_type
    /\ param_counter' = f.pc
    /\ UNCHANGED relationships
    /\ IF f.err
       THEN /\ last' = Raised("find", "InjectionRisk")
            /\ UNCHANGED <<query_parts, filter_params>>
       ELSE /\ Len(query_parts.match_clauses) < MaxMatch
            /\ filter_params' = update(filter_params, f.params)
            /\ query_parts' =
                   [query_parts EXCEPT !.match_clauses =
                       Append(@, Line("MATCH", root_pattern(alias, node_type, f.parts)))]
            /\ last' = Returned("find")

(***************************************************************************)
(* IYPQueryBuilder.with_relationship                                       *)
(***************************************************************************)
rel_pattern_ge(rel_type, hops) ==
    <<Sym("["), Sym(":"), Tok("rel", rel_type, 0)>>
    \o (IF hops >= 1 THEN <<Tok("range", "*1..", hops)>> ELSE <<>>)
    \o <<Sym("]")>>

rel_pattern(rel_type, hops) ==
    <<Sym("["), Sym(":"), Tok("rel", rel_type, 0)>>
    \o (IF hops > 1 THEN <<Tok("range", "*1..", hops)>> ELSE <<>>)
    \o <<Sym("]")>>

to_pattern(to_alias, to_node_type) ==
    <<Sym("("), Tok("alias", to_alias, 0)>>
    \o (IF to_node_type # None
        THEN <<Sym(":"), Tok("label", to_node_type, 0)>> ELSE <<>>)
    \o <<Sym(")")>>

\* The MATCH line of a traversal step (the arrow computed before it is not
\* used by the code that builds the line).
match_clause(from_alias, rel, to, direction) ==
    LET source == <<Sym("("), Tok("alias", from_alias, 0), Sym(")")>>
    IN IF direction = "in"
       THEN Line("MATCH", to \o <<Sym("-")>> \o rel \o <<Sym("-")>> \o source)
       ELSE IF direction = "out"
       THEN Line("MATCH", source \o <<Sym("-")>> \o rel \o <<Sym("->")>> \o to)
       ELSE Line("MATCH", source \o <<Sym("-")>> \o rel \o <<Sym("-")>> \o to)

with_relationship(relationship, to, from_node, alias_arg, direction, hops) ==
    LET from_alias == IF from_node # None THEN from_node ELSE root_alias
        to_node_type == to
        to_alias ==
            IF alias_arg = None
            THEN IF to # None
                 THEN unique_alias(lower(to), lower(to), 1, validator.defined_aliases)
                 ELSE "node_" \o ToString(Len(relationships))
            ELSE alias_arg
        fail(error) ==
            /\ last' = Raised("with_relationship", error)
            /\ UNCHANGED <<validator, query_parts, param_counter, relationships,
                           root_alias, root_node_type, filter_params>>
    IN
    IF ~validate_relationship_type(relationship) THEN fail("UnknownKind")
    ELSE IF from_alias \notin validator.defined_aliases
    THEN fail("UnknownSourceAlias")
    ELSE IF to # None /\ ~validate_node_type(to) THEN fail("UnknownKind")
    ELSE IF to_node_type # None /\ ~register_alias_ok(validator, to_alias)
    THEN fail("DuplicateAlias")
    ELSE
    /\ Len(query_parts.match_clauses) < MaxMatch
    /\ IF to_node_type # None
       THEN /\ Cardinality(validator.defined_aliases) < MaxAliases
            /\ \E order \in set_add_orders(validator.iter_order, to_alias) :
                   validator' = register_alias(validator, to_alias, to_node_type, order)
       ELSE UNCHANGED validator
    /\ relationships' =
           Append(relationships,
                  RelationshipSpec(relationship, to_node_type, from_alias,
                                   to_alias, direction, hops))
    /\ query_parts' =
           [query_parts EXCEPT !.match_clauses =
               Append(@, match_clause(from_alias, rel_pattern(relationship, hops),
                                      to_pattern(to_alias, to_node_type),
                                      direction))]
    /\ last' = Returned("with_relationship")
    /\ UNCHANGED <<param_counter, root_alias, root_node_type, filter_params>>

(***************************************************************************)
(* Field references ('as.asn', '-as.asn', 'count(as) as n') are sequences  *)
(* of pieces, so that the code's split('.', 1), lstrip('-'), startswith    *)
(* and substring tests act on them: "." and "-" are pieces of their own.   *)
(***************************************************************************)
RECURSIVE concat(_)
\* The pieces put back together as one name.
concat(pieces) ==
    IF pieces = <<>> THEN "" ELSE pieces[1] \o concat(Tail(pieces))

NODE_PROPERTIES(node_type) ==
    CASE node_type \in {"AS"} -> {"asn", "name"}
      [] node_type \in {"AtlasMeasurement", "AtlasProbe", "CaidaIXID",
                        "CaidaOrgID", "OpaqueID", "PeeringdbFacID",
                        "PeeringdbIXID", "PeeringdbNetID", "PeeringdbOrgID"}
           -> {"id"}
      [] node_type \in {"AuthoritativeNameServer", "BGPCollector", "DomainName",
                        "Facility", "HostName", "IXP", "Name", "Organization",
                        "Ranking"} -> {"name"}
      [] node_type \in {"BGPPrefix", "GeoPrefix", "PeeringLAN", "Prefix",
                        "RDNSPrefix", "RIRPrefix", "RPKIPrefix"} -> {"prefix", "af"}
      [] node_type = "Country" -> {"country_code", "alpha3", "name"}
      [] node_type = "IP" -> {"ip", "af"}
      [] node_type = "Point" -> {"position"}
      [] node_type = "Tag" -> {"label"}
      [] node_type = "URL" -> {"url"}
      [] OTHER -> {}

get_node_properties(node_type) == NODE_PROPERTIES(node_type)

\* Index of the first "." piece, 0 when there is none.
first_dot(field) ==
    IF \E i \in 1..Len(field) : field[i] = "."
    THEN CHOOSE i \in 1..Len(field) :
             field[i] = "." /\ \A j \in 1..(i - 1) : field[j] # "."
    ELSE 0

validate_property_any_alias(v, alias_or_property) ==
    LET d == first_dot(alias_or_property)
        alias == concat(SubSeq(alias_or_property, 1, d - 1))
        prop == concat(SubSeq(alias_or_property, d + 1, Len(alias_or_property)))
    IN IF d = 0 THEN "ok"
       ELSE IF alias \in DOMAIN v.node_types
               /\ get_node_properties(v.node_types[alias]) # {}
               /\ prop \notin get_node_properties(v.node_types[alias])
       THEN "InvalidProperty"
       ELSE "ok"

\* validate_property: "ok", or the error it raises.
validate_property(v, alias_or_property) ==
    LET d == first_dot(alias_or_property)
        alias == concat(SubSeq(alias_or_property, 1, d - 1))
        prop == concat(SubSeq(alias_or_property, d + 1, Len(alias_or_property)))
    IN IF d = 0 THEN "ok"
       ELSE IF alias \notin v.defined_aliases THEN "UnknownAlias"
       ELSE IF alias \in DOMAIN v.node_types
               /\ get_node_properties(v.node_types[alias]) # {}
               /\ prop \notin get_node_properties(v.node_types[alias])
       THEN "InvalidProperty"
       ELSE "ok"

RECURSIVE validate_return_fields(_, _)
\* "ok", or the error of the first field that fails.
validate_return_fields(v, fields) ==
    IF fields = <<>> THEN "ok"
    ELSE IF validate_property(v, fields[1]) # "ok"
    THEN validate_property(v, fields[1])
    ELSE validate_return_fields(v, Tail(fields))

RECURSIVE lstrip(_)
\* field.lstrip('-')
lstrip(field) ==
    IF field # <<>> /\ field[1] = "-" THEN lstrip(Tail(field)) ELSE field

RECURSIVE validate_order_by(_, _)
validate_order_by(v, order_by_) ==
    IF order_by_ = <<>> THEN "ok"
    ELSE IF validate_property(v, lstrip(order_by_[1])) # "ok"
    THEN validate_property(v, lstrip(order_by_[1]))
    ELSE validate_order_by(v, Tail(order_by_))

\* validate_limit without its upper bound.
validate_limit_unbounded(n) == IF n < 0 THEN "InvalidBound" ELSE "ok"

validate_limit(n) == IF n < 0 \/ n > 100000 THEN "InvalidBound" ELSE "ok"

validate_skip(n) == IF n < 0 THEN "InvalidBound" ELSE "ok"

(***************************************************************************)
(* IYPQueryBuilder: where, having, return_fields, order_by, group_by,      *)
(* limit, skip                                                             *)
(***************************************************************************)
is_Condition(c) == c.type \in {"Q", "And", "Or", "Not"}

\* What a call hands back: the builder itself, or the error it raises.
outcome(op, error) == IF error = "ok" THEN Returned(op) ELSE Raised(op, error)

\* The condition a where/having call goes on with: a dictionary converted,
\* anything else as it is.
as_condition(condition) ==
    IF isinstance_dict(condition) THEN dict_to_condition(condition)
    ELSE Converted(condition)

where(condition) ==
    LET c == as_condition(condition)
    IN IF c.err # "ok"
       THEN /\ last' = Raised("where", c.err)
            /\ UNCHANGED <<validator, query_parts, param_counter, relationships,
                           root_alias, root_node_type, filter_params>>
       ELSE IF ~is_Condition(c.cond)
       THEN /\ last' = Raised("where", "InvalidCondition")
            /\ UNCHANGED <<validator, query_parts, param_counter, relationships,
                           root_alias, root_node_type, filter_params>>
       ELSE /\ Len(query_parts.where_conditions) < MaxConds
            /\ query_parts' =
                   [query_parts EXCEPT !.where_conditions = Append(@, c.cond)]
            /\ last' = Returned("where")
            /\ UNCHANGED <<validator, param_counter, relationships, root_alias,
                           root_node_type, filter_params>>

having(condition) ==
    LET c == as_condition(condition)
    IN IF c.err # "ok"
       THEN /\ last' = Raised("having", c.err)
            /\ UNCHANGED <<validator, query_parts, param_counter, relationships,
                           root_alias, root_node_type, filter_params>>
       ELSE IF ~is_Condition(c.cond)
       THEN /\ last' = Raised("having", "InvalidCondition")
            /\ UNCHANGED <<validator, query_parts, param_counter, relationships,
                           root_alias, root_node_type, filter_params>>
       ELSE /\ Len(query_parts.having_conditions) < MaxConds
            /\ query_parts' =
                   [query_parts EXCEPT !.having_conditions = Append(@, c.cond)]
            /\ last' = Returned("having")
            /\ UNCHANGED <<validator, param_counter, relationships, root_alias,
                           root_node_type, filter_params>>

return_fields(fields) ==
    LET error == validate_return_fields(validator, fields)
    IN /\ query_parts' = IF error = "ok"
                         THEN [query_parts EXCEPT !.return_fields = fields]
                         ELSE query_parts
       /\ last' = outcome("return_fields", error)
       /\ UNCHANGED <<validator, param_counter, relationships, root_alias,
                      root_node_type, filter_params>>

order_by(fields) ==
    LET error == validate_order_by(validator, fields)
    IN /\ query_parts' = IF error = "ok"
                         THEN [query_parts EXCEPT !.order_by = fields]
                         ELSE query_parts
       /\ last' = outcome("order_by", error)
       /\ UNCHANGED <<validator, param_counter, relationships, root_alias,
                      root_node_type, filter_params>>

group_by(fields) ==
    LET error == validate_return_fields(validator, fields)
    IN /\ query_parts' = IF error = "ok"
                         THEN [query_parts EXCEPT !.group_by = fields]
                         ELSE query_parts
       /\ last' = outcome("group_by", error)
       /\ UNCHANGED <<validator, param_counter, relationships, root_alias,
                      root_node_type, filter_params>>

limit(count) ==
    LET error == validate_limit(count)
    IN /\ query_parts' = IF error = "ok"
                         THEN [query_parts EXCEPT !.limit = <<count>>]
                         ELSE query_parts
       /\ last' = outcome("limit", error)
       /\ UNCHANGED <<validator, param_counter, relationships, root_alias,
                      root_node_type, filter_params>>

skip(count) ==
    LET error == validate_skip(count)
    IN /\ query_parts' = IF error = "ok"
                         THEN [query_parts EXCEPT !.skip = <<count>>]
                         ELSE query_parts
       /\ last' = outcome("skip", error)
       /\ UNCHANGED <<validator, param_counter, relationships, root_alias,
                      root_node_type, filter_params>>

(***************************************************************************)
(* IYPQueryBuilder.to_cypher                                               *)
(***************************************************************************)
\* One condition is used directly, several are wrapped in And(*conditions).
combine(conditions, pc) ==
    IF Len(conditions) = 1
    THEN Condition_to_cypher(conditions[1], pc)
    ELSE And_to_cypher(And(conditions), pc)

\* field.lower() on one piece of a field reference.
lower_piece(piece) ==
    CASE piece = "COUNT(" -> "count("
      [] piece = "SUM(" -> "sum("
      [] piece = "AVG(" -> "avg("
      [] piece = "MIN(" -> "min("
      [] piece = "MAX(" -> "max("
      [] OTHER -> piece

\* 'count(' in field.lower() or 'sum(' ... or 'avg(' ...; a call's name and
\* its opening parenthesis are one piece of the reference.
is_aggregation(field) ==
    \E i \in 1..Len(field) : lower_piece(field[i]) \in {"count(", "sum(", "avg("}

RECURSIVE add_return_fields(_, _)
\* The second loop of the WITH list: the return fields that are no
\* aggregation and are not in the list yet.
add_return_fields(with_parts, fields) ==
    IF fields = <<>> THEN with_parts
    ELSE add_return_fields(
             IF ~is_aggregation(fields[1])
                /\ ~ \E i \in 1..Len(with_parts) : with_parts[i] = fields[1]
             THEN Append(with_parts, fields[1]) ELSE with_parts,
             Tail(fields))

field_list(fields) ==
    join(Sym(","), [i \in 1..Len(fields) |-> <<FieldTok(fields[i])>>])

alias_list(aliases) ==
    join(Sym(","), [i \in 1..Len(aliases) |-> <<Tok("alias", aliases[i], 0)>>])

order_fields(order_by_) ==
    join(Sym(","),
         [i \in 1..Len(order_by_) |->
             IF order_by_[i] # <<>> /\ order_by_[i][1] = "-"
             THEN <<FieldTok(Tail(order_by_[i])), Kw("DESC")>>
             ELSE <<FieldTok(order_by_[i]), Kw("ASC")>>])

all_params_no_filters(where_params, having_params, filter_params_) ==
    update(where_params, having_params)

\* all_params after its three update() calls.
all_params(where_params, having_params, filter_params_) ==
    update(update(where_params, having_params), filter_params_)

cypher_parts_limit_first(match, where_, result, order, skip_, limit_) ==
    match \o where_ \o result \o order \o limit_ \o skip_

\* cypher_parts in the order the code appends to it.
cypher_parts(match, where_, result, order, skip_, limit_) ==
    match \o where_ \o result \o order \o skip_ \o limit_

\* The where part of to_cypher: the conditions joined and compiled from the
\* builder's parameter counter.
compile_where(qp, pc) ==
    IF qp.where_conditions # <<>>
    THEN combine(qp.where_conditions, pc)
    ELSE Compiled(FALSE, <<>>, <<>>, pc)

\* The having part compiled whenever there are having conditions.
compile_having_always(qp, w) ==
    IF qp.having_conditions # <<>>
    THEN combine(qp.having_conditions, w.pc)
    ELSE Compiled(FALSE, <<>>, <<>>, w.pc)

\* The having part, compiled after the where part w with the same counter;
\* only the WITH branch compiles it.
compile_having(qp, w) ==
    IF qp.group_by # <<>> /\ qp.return_fields # <<>> /\ qp.having_conditions # <<>>
    THEN combine(qp.having_conditions, w.pc)
    ELSE Compiled(FALSE, <<>>, <<>>, w.pc)

\* The WITH / RETURN lines, h the compiled having part.
compile_result(qp, v, h) ==
    IF qp.group_by # <<>>
    THEN IF qp.return_fields # <<>>
         THEN <<Line("WITH", field_list(
                         add_return_fields(qp.group_by, qp.return_fields)))>>
              \o (IF qp.having_conditions # <<>>
                  THEN <<Line("WHERE", h.cypher)>> ELSE <<>>)
              \o <<Line("RETURN", field_list(qp.return_fields))>>
         ELSE <<Line("RETURN", field_list(qp.group_by))>>
    ELSE IF qp.return_fields # <<>>
         THEN <<Line("RETURN", field_list(qp.return_fields))>>
         ELSE <<Line("RETURN", alias_list(v.iter_order))>>

\* How to_cypher ends given its compiled where part w and having part h.
compile_parts(qp, pc, v, filter_params_, w, h) ==
    IF qp.match_clauses = <<>>
    THEN [status |-> "NoMatchClause", text |-> <<>>, params |-> <<>>, pc |-> pc]
    ELSE IF w.err
    THEN [status |-> "ValueError", text |-> <<>>, params |-> <<>>, pc |-> w.pc]
    ELSE IF h.err
    THEN [status |-> "ValueError", text |-> <<>>, params |-> <<>>, pc |-> h.pc]
    ELSE [status |-> "ok",
          text |-> cypher_parts(
              qp.match_clauses,
              IF qp.where_conditions # <<>>
              THEN <<Line("WHERE", w.cypher)>> ELSE <<>>,
              compile_result(qp, v, h),
              IF qp.order_by # <<>>
              THEN <<Line("ORDER BY", order_fields(qp.order_by))>> ELSE <<>>,
              IF qp.skip # <<>> THEN <<Line("SKIP", <<Num(qp.skip[1])>>)>> ELSE <<>>,
              IF qp.limit # <<>> THEN <<Line("LIMIT", <<Num(qp.limit[1])>>)>> ELSE <<>>),
          params |-> all_params(w.params, h.params, filter_params_),
          pc |-> h.pc]

compile_after_where(qp, pc, v, filter_params_, w) ==
    compile_parts(qp, pc, v, filter_params_, w, compile_having(qp, w))

\* The run of to_cypher on a builder with the given query parts, parameter
\* counter, validator and _filter_params: how it ends, the text and
\* parameters it returns, and the parameter counter it leaves.
compile_builder(qp, pc, v, filter_params_) ==
    compile_after_where(qp, pc, v, filter_params_, compile_where(qp, pc))

\* to_cypher numbering its parameters from zero on every run.
to_cypher_run_renumbered ==
    compile_builder(query_parts, 0, validator, filter_params)

\* The run of to_cypher on the session as it stands.
to_cypher_run ==
    compile_builder(query_parts, param_counter, validator, filter_params)

\* to_cypher run to its end r: the counter it leaves on the session and
\* what the call op hands back (or hands the executor).
compiled(op, r) ==
    /\ r.pc <= MaxParams
    /\ param_counter' = r.pc
    /\ last' = [op |-> op, status |-> r.status, text |-> r.text,
                params |-> r.params]
    /\ UNCHANGED <<validator, query_parts, relationships, root_alias,
                   root_node_type, filter_params>>

to_cypher == compiled("to_cypher", to_cypher_run)

(***************************************************************************)
(* IYPQueryBuilder.execute, execute_df, execute_raw, execute_single, count *)
(* The executor is outside the model: a call of it shows as the (text,     *)
(* parameters) pair it was handed, in last.                                *)
(***************************************************************************)
ExecuteMethods == {"execute", "execute_df", "execute_raw", "execute_single"}

\* self.to_cypher(), then the executor's method of the same name on the
\* compiled pair; an error of to_cypher leaves the executor uncalled.
execute(method) == compiled(method, to_cypher_run)

\* The field 'count(*) as count'.
COUNT_FIELD == <<"count(", "*", ")", " as count">>

\* The builder count() constructs: a new IYPQueryBuilder (its own parameter
\* counter, no _filter_params) given the session's validator and copies of
\* its match clauses and where conditions.
count_query ==
    [validator |-> validator,
     query_parts |-> [QueryPart EXCEPT
                         !.match_clauses = query_parts.match_clauses,
                         !.where_conditions = query_parts.where_conditions,
                         !.return_fields = <<COUNT_FIELD>>],
     param_counter |-> 0,
     filter_params |-> <<>>]

\* count_query.execute_single(): its to_cypher, then the executor.
count_query_run ==
    compile_builder(count_query.query_parts, count_query.param_counter,
                    count_query.validator, count_query.filter_params)

count_in_place ==
    LET r == to_cypher_run
    IN /\ r.pc <= MaxParams
       /\ query_parts' = [query_parts EXCEPT !.return_fields = <<COUNT_FIELD>>]
       /\ param_counter' = r.pc
       /\ last' = [op |-> "count", status |-> r.status, text |-> r.text,
                   params |-> r.params]
       /\ UNCHANGED <<validator, relationships, root_alias, root_node_type,
                      filter_params>>

count ==
    LET r == count_query_run
    IN /\ last' = [op |-> "count", status |-> r.status, text |-> r.text,
                   params |-> r.params]
       /\ UNCHANGED <<validator, query_parts, param_counter, relationships,
                      root_alias, root_node_type, filter_params>>

(***************************************************************************)
(* IYPQueryBuilder: the shorthands                                         *)
(***************************************************************************)
upstream(hops, alias) ==
    with_relationship("DEPENDS_ON", "AS", None, alias, "out", hops)

downstream(hops, alias) ==
    with_relationship("DEPENDS_ON", "AS", None, alias, "in", hops)

peers(alias) == with_relationship("PEERS_WITH", "AS", None, alias, "both", 1)

with_organizations(alias) ==
    with_relationship("MANAGED_BY", "Organization", None, alias, "out", 1)

in_country(alias) == with_relationship("COUNTRY", "Country", None, alias, "out", 1)

categorized_as(alias) == with_relationship("CATEGORIZED", "Tag", None, alias, "out", 1)

(***************************************************************************)
(* translation_service.py: CypherTranslationService.translate_method_chain *)
(* The loop over the chain is one step per method name: translation.at is  *)
(* the place in the handler, translation.methods the names still to apply, *)
(* and the builder variables are the handler's query object.  A method     *)
(* chain string is a sequence of pieces, "." and " " being pieces of their *)
(* own.                                                                    *)
(***************************************************************************)
RECURSIVE strip(_)
\* m.strip() on the pieces of one name.
strip(pieces) ==
    IF pieces # <<>> /\ pieces[1] = " " THEN strip(Tail(pieces))
    ELSE IF pieces # <<>> /\ pieces[Len(pieces)] = " "
    THEN strip(SubSeq(pieces, 1, Len(pieces) - 1))
    ELSE pieces

RECURSIVE split(_, _)
\* chain.split('.'): the runs of pieces between the dots, current being the
\* run under way.
split(chain, current) ==
    IF chain = <<>> THEN <<current>>
    ELSE IF chain[1] = "." THEN <<current>> \o split(Tail(chain), <<>>)
    ELSE split(Tail(chain), Append(current, chain[1]))

\* methods = [m.strip() for m in chain.split('.') if m.strip()], after the
\* chain was stripped and lost one leading dot.
methods_of(method_chain) ==
    LET chain == IF strip(method_chain) # <<>> /\ strip(method_chain)[1] = "."
                 THEN Tail(strip(method_chain)) ELSE strip(method_chain)
        runs == split(chain, <<>>)
        names == [i \in 1..Len(runs) |-> concat(strip(runs[i]))]
    IN SelectSeq(names, LAMBDA m : m # "")

\* params.get(key, default); a parameter map is a dictionary whose keys
\* are one-piece names.
params_get(params, key, default) ==
    IF has_key(params, <<key>>) THEN get(params, <<key>>) ELSE default

\* Python's truth test on a value.
truthy(value) ==
    CASE value.k = "none" -> FALSE
      [] value.k = "int" -> value.n # 0
      [] value.k = "str" -> value.s # <<>>
      [] value.k = "list" -> value.items # <<>>
      [] OTHER -> TRUE

\* The attributes hasattr finds on an IYPQueryBuilder: its methods, and
\* its fields, which are not callable.
BuilderMethods ==
    {"find", "with_relationship", "where", "return_fields", "order_by",
     "group_by", "having", "limit", "skip", "upstream", "downstream", "peers",
     "with_organizations", "in_country", "categorized_as", "to_cypher",
     "execute", "execute_df", "execute_raw", "execute_single", "count"}

BuilderFields ==
    {"executor", "validator", "query_parts", "param_counter", "relationships",
     "root_alias", "root_node_type"}

\* A call that raises before it touches the builder.
raises(op, error) ==
    /\ last' = Raised(op, error)
    /\ UNCHANGED <<validator, query_parts, param_counter, relationships,
                   root_alias, root_node_type, filter_params>>

\* The return of translate_method_chain with success False.
translation_failed == [translation EXCEPT !.at = "returned", !.success = FALSE]

\* The start of translate_method_chain up to the loop: the early returns,
\* or a new builder from self.iyp.builder() and the methods to apply.
translate_method_chain(method_chain, params) ==
    /\ translation.at # "loop"
    /\ IF ~translation.iyp
       THEN /\ raises("translate_method_chain", "NoConnection")
            /\ translation' = translation_failed
       ELSE IF methods_of(method_chain) = <<>>
       THEN /\ raises("translate_method_chain", "EmptyChain")
            /\ translation' = translation_failed
       ELSE /\ validator' = QueryValidator
            /\ query_parts' = QueryPart
            /\ param_counter' = 0
            /\ relationships' = <<>>
            /\ root_alias' = None
            /\ root_node_type' = None
            /\ filter_params' = <<>>
            /\ last' = Returned("__init__")
            /\ translation' = [translation EXCEPT
                                  !.at = "loop",
                                  !.methods = methods_of(method_chain),
                                  !.params = params,
                                  !.query = "builder",
                                  !.success = FALSE]

\* The call the loop body makes for one method name on the builder.
method_call(method_name, params) ==
    CASE method_name = "find" ->
             find(params_get(params, "node_type", "AS"),
                  params_get(params, "alias", "node"),
                  IF truthy(params_get(params, "asn", NoneV))
                  THEN << <<"asn", params_get(params, "asn", NoneV)>> >>
                  ELSE <<>>)
      [] method_name = "with_organizations" -> with_organizations(None)
      [] method_name = "upstream" ->
             upstream(params_get(params, "hops", IntV(1)).n,
                      params_get(params, "upstream_alias", "upstream"))
      [] method_name = "downstream" ->
             downstream(params_get(params, "hops", IntV(1)).n,
                        params_get(params, "downstream_alias", "downstream"))
      [] method_name = "peers" -> peers(params_get(params, "peer_alias", "peer"))
      [] method_name = "with_relationship" ->
             with_relationship(params_get(params, "relationship", "DEPENDS_ON"),
                               params_get(params, "to", "AS"), None,
                               params_get(params, "rel_alias", "related"),
                               "out", 1)
      [] method_name = "where" ->
             IF has_key(params, <<"condition">>)
             THEN where(get(params, <<"condition">>))
             ELSE UNCHANGED <<validator, query_parts, param_counter, relationships,
                              root_alias, root_node_type, filter_params, last>>
      [] method_name = "limit" -> limit(params_get(params, "limit", IntV(10)).n)
      [] method_name = "return_fields" -> return_fields(<< <<"*">> >>)
      [] method_name = "in_country" -> in_country(None)
      [] method_name = "categorized_as" -> categorized_as(None)
      [] method_name = "to_cypher" -> to_cypher
      [] method_name \in ExecuteMethods -> execute(method_name)
      [] method_name = "count" -> count
      [] OTHER -> raises(method_name, "TypeError")

\* One turn of the loop.  What to_cypher, the execute methods and count
\* return is no builder; the loop goes on with it, and every method name
\* applied to it, like the final to_cypher, ends in a failure return.
apply_method ==
    /\ translation.at = "loop"
    /\ translation.methods # <<>>
    /\ LET method_name == Head(translation.methods)
       IN IF translation.query # "builder"
          THEN /\ raises(method_name, "NotABuilder")
               /\ translation' = translation_failed
          ELSE IF method_name \notin BuilderMethods \cup BuilderFields
          THEN /\ raises(method_name, "UnknownMethod")
               /\ translation' = translation_failed
          ELSE /\ method_call(method_name, translation.params)
               /\ translation' =
                      IF last'.status # "ok" THEN translation_failed
                      ELSE [translation EXCEPT
                               !.methods = Tail(@),
                               !.query = IF method_name \in
                                              ExecuteMethods \cup {"to_cypher", "count"}
                                         THEN "other" ELSE "builder"]

\* After the loop: query.to_cypher() and the return.
generate ==
    /\ translation.at = "loop"
    /\ translation.methods = <<>>
    /\ IF translation.query # "builder"
       THEN /\ raises("to_cypher", "NotABuilder")
            /\ translation' = translation_failed
       ELSE /\ to_cypher
            /\ translation' = [translation EXCEPT
                                  !.at = "returned",
                                  !.success = (last'.status = "ok")]

(***************************************************************************)
(* Inputs of the calls.                                                    *)
(***************************************************************************)
V_ASN == IntV(15169)
V_US == StrV(<<"U", "S">>)
V_DROP == StrV(<<"x", " ", "D", "r", "o", "p">>)
V_COMMENT == StrV(<<"a", "-", "-">>)

F_ASN == <<"as", ".", "asn">>
F_NAME == <<"as", ".", "name">>
F_BARE == <<"n">>
F_COUNT == <<"count(", "as", ")">>
F_DESC == <<"-", "as", ".", "asn">>

\* An argument that is neither a Condition nor a dictionary.
NotACondition == [type |-> "str"]

FindInput(node_type, alias, filters) ==
    [node_type |-> node_type, alias |-> alias, filters |-> filters]

WithInput(relationship, to, from_node, alias, direction, hops) ==
    [relationship |-> relationship, to |-> to, from_node |-> from_node,
     alias |-> alias, direction |-> direction, hops |-> hops]

(***************************************************************************)
(* SpecMatch: sessions of find, with_relationship and to_cypher.           *)
(***************************************************************************)
FindInputsMatch ==
    {FindInput("AS", None, <<>>),
     FindInput("AS", "a", <<>>),
     FindInput("Country", "a", <<>>),
     FindInput("AS", None, << <<"name", V_DROP>> >>),
     FindInput("Bogus", None, <<>>)}

\* Every direction with and without a hop range, and hop counts on both
\* sides of 1; then the calls that fail.
WithInputsMatch ==
    {WithInput("DEPENDS_ON", "AS", None, None, "out", 1),
     WithInput("DEPENDS_ON", "AS", None, None, "out", 2),
     WithInput("DEPENDS_ON", "AS", None, None, "out", -1),
     WithInput("DEPENDS_ON", "AS", None, None, "in", 1),
     WithInput("DEPENDS_ON", "AS", None, None, "in", 3),
     WithInput("DEPENDS_ON", "AS", None, None, "in", 0),
     WithInput("PEERS_WITH", "AS", None, None, "both", 2),
     WithInput("PEERS_WITH", "AS", None, None, "both", 0),
     WithInput("MANAGED_BY", None, None, None, "out", 1),
     WithInput("MANAGED_BY", "Organization", "a", "a", "out", 1),
     WithInput("MANAGED_BY", "Organization", "zz", None, "out", 1),
     WithInput("BOGUS", "AS", None, None, "out", 1),
     WithInput("COUNTRY", "Bogus", None, None, "out", 1)}

NextMatch ==
    \/ \E i \in FindInputsMatch : find(i.node_type, i.alias, i.filters) /\ UNCHANGED translation
    \/ \E i \in WithInputsMatch :
           with_relationship(i.relationship, i.to, i.from_node, i.alias,
                             i.direction, i.hops) /\ UNCHANGED translation
    \/ to_cypher /\ UNCHANGED translation

SpecMatch == Init /\ [][NextMatch]_vars

(***************************************************************************)
(* SpecParams: sessions whose filters and conditions carry values.         *)
(***************************************************************************)
FindInputsParams ==
    {FindInput("AS", "as", << <<"asn", V_ASN>> >>),
     FindInput("AS", "as", << <<"asn", V_ASN>>, <<"name", V_DROP>> >>),
     FindInput("Country", None, << <<"name", V_US>> >>)}

WhereInputs ==
    {Q(F_ASN, "=", V_ASN),
     And(<<Q(F_NAME, "IS NULL", NoneV), Not(Q(F_NAME, "CONTAINS", V_DROP))>>)}

HavingInputs ==
    {Or(<<Q(F_BARE, "IN", ListV(<<V_US, V_COMMENT>>))>>)}

NextParams ==
    \/ \E i \in FindInputsParams : find(i.node_type, i.alias, i.filters) /\ UNCHANGED translation
    \/ \E c \in WhereInputs : where(c) /\ UNCHANGED translation
    \/ \E c \in HavingInputs : having(c) /\ UNCHANGED translation
    \/ \E f \in {<<>>, <<F_ASN>>} : group_by(f) /\ UNCHANGED translation
    \/ \E f \in {<<>>, <<F_ASN, F_COUNT>>} : return_fields(f) /\ UNCHANGED translation
    \/ to_cypher /\ UNCHANGED translation

SpecParams == Init /\ [][NextParams]_vars

(***************************************************************************)
(* Spec: sessions that use every clause of the query.                      *)
(***************************************************************************)
NextClauses ==
    \/ find("AS", "as", <<>>) /\ UNCHANGED translation
    \/ with_relationship("COUNTRY", "Country", None, "c", "out", 1) /\ UNCHANGED translation
    \/ \E c \in {Q(F_ASN, "=", V_ASN), NotACondition} : where(c) /\ UNCHANGED translation
    \/ having(Q(F_BARE, ">", V_ASN)) /\ UNCHANGED translation
    \/ \E f \in {<<>>, <<F_ASN>>} : group_by(f) /\ UNCHANGED translation
    \/ \E f \in {<<>>, <<F_ASN, F_COUNT>>, <<<<"zz", ".", "asn">>>>} : return_fields(f) /\ UNCHANGED translation
    \/ \E f \in {<<>>, <<F_DESC, F_NAME>>, <<<<"as", ".", "bogus">>>>} : order_by(f) /\ UNCHANGED translation
    \/ \E n \in {-1, 0, 5} : skip(n) /\ UNCHANGED translation
    \/ \E n \in {-1, 10, 100001} : limit(n) /\ UNCHANGED translation
    \/ to_cypher /\ UNCHANGED translation

Spec == Init /\ [][NextClauses]_vars

(***************************************************************************)
(* Reading a compiled text back.                                           *)
(***************************************************************************)
RECURSIVE TextTokens(_)
\* All tokens of a text, line after line.
TextTokens(text) ==
    IF text = <<>> THEN <<>> ELSE text[1].body \o TextTokens(Tail(text))

IsParam(tok) == tok.t = "param"
IsRel(tok) == tok.t = "rel"
IsRange(tok) == tok.t = "range"

\* The $param_N tokens of a text, one entry per occurrence.
ParamTokens(text) == SelectSeq(TextTokens(text), IsParam)

Keywords(text) == [i \in 1..Len(text) |-> text[i].kw]

\* A match fragment is a traversal when it holds a relationship token.
IsTraversal(line) == SelectSeq(line.body, IsRel) # <<>>
IsRoot(line) == line.kw = "MATCH" /\ ~IsTraversal(line)

Compiles == last.op = "to_cypher" /\ last.status = "ok"

\* How many of the first i match fragments are traversals: fragment i, when
\* a traversal, was built from relationships[TraversalIndex(i)].
TraversalIndex(i) ==
    Len(SelectSeq(SubSeq(query_parts.match_clauses, 1, i), IsTraversal))

\* The alias a match fragment introduces as a new node.
Introduced(i) ==
    IF IsTraversal(query_parts.match_clauses[i])
    THEN relationships[TraversalIndex(i)].to_node_alias
    ELSE query_parts.match_clauses[i].body[2].s

RECURSIVE AtomValues(_)
RECURSIVE AtomValuesOfAll(_)
\* The values of the atomic predicates of a condition tree, null checks
\* (which carry none) left out, in compilation order.
AtomValues(cond) ==
    CASE cond.type = "Q" ->
           IF cond.operator \in {"IS NULL", "IS NOT NULL"} THEN <<>>
           ELSE <<cond.value>>
      [] cond.type = "Not" -> AtomValues(cond.condition)
      [] OTHER -> AtomValuesOfAll(cond.conditions)

AtomValuesOfAll(conditions) ==
    IF conditions = <<>> THEN <<>>
    ELSE AtomValues(conditions[1]) \o AtomValuesOfAll(Tail(conditions))

Range(f) == {f[x] : x \in DOMAIN f}

(***************************************************************************)
(* C1: two consecutive to_cypher calls with no builder call in between     *)
(* return the same text and the same parameter map.                        *)
(***************************************************************************)
C1_CompileTwiceSame ==
    [][(Compiles /\ Compiles')
        => (last'.text = last.text /\ last'.params = last.params)]_vars

(***************************************************************************)
(* C2: in every compiled (text, params) pair the $param_N tokens of the    *)
(* text are exactly the keys of the parameter map, and no name is used by  *)
(* two occurrences (so none stands for two values).                        *)
(***************************************************************************)
C2_ParamsMatchText ==
    Compiles =>
        /\ {ParamTokens(last.text)[i].n : i \in 1..Len(ParamTokens(last.text))}
               = DOMAIN last.params
        /\ Len(ParamTokens(last.text)) = Cardinality(DOMAIN last.params)

\* A compiled query with an inline filter, a WHERE and a HAVING parameter.
C2_Witness ==
    /\ Compiles
    /\ Cardinality(DOMAIN last.params) >= 3
    /\ filter_params # <<>>
    /\ Len(SelectSeq(Keywords(last.text), LAMBDA k : k = "WHERE")) = 2

(***************************************************************************)
(* C3: a registered alias keeps the kind of its first registration; a find *)
(* or with_relationship call that would register an alias already present  *)
(* fails with DuplicateAlias and changes no binding.                       *)
(***************************************************************************)
C3_AliasBoundOnce ==
    [][/\ \A a \in validator.defined_aliases :
              /\ a \in validator'.defined_aliases
              /\ validator'.node_types[a] = validator.node_types[a]
       /\ DOMAIN validator'.node_types = validator'.defined_aliases
       /\ \A i \in FindInputsMatch :
              (/\ validate_node_type(i.node_type)
               /\ i.alias \in validator.defined_aliases
               /\ find(i.node_type, i.alias, i.filters))
              => (last' = Raised("find", "DuplicateAlias") /\ validator' = validator)
       /\ \A i \in WithInputsMatch :
              (/\ validate_relationship_type(i.relationship)
               /\ i.to # None /\ validate_node_type(i.to)
               /\ (IF i.from_node # None THEN i.from_node ELSE root_alias)
                      \in validator.defined_aliases
               /\ i.alias \in validator.defined_aliases
               /\ with_relationship(i.relationship, i.to, i.from_node, i.alias,
                                    i.direction, i.hops))
              => (last' = Raised("with_relationship", "DuplicateAlias")
                  /\ validator' = validator)]_vars

\* A second registration of alias a was refused and a is still an AS.
C3_Witness ==
    /\ last.status = "DuplicateAlias"
    /\ "a" \in validator.defined_aliases
    /\ validator.node_types["a"] = "AS"

\* The clause keywords that may follow the MATCH lines.
ClauseTails ==
    {w \o r \o o \o s \o l :
        w \in {<<>>, <<"WHERE">>},
        r \in {<<"RETURN">>, <<"WITH", "RETURN">>, <<"WITH", "WHERE", "RETURN">>},
        o \in {<<>>, <<"ORDER BY">>},
        s \in {<<>>, <<"SKIP">>},
        l \in {<<>>, <<"LIMIT">>}}

(***************************************************************************)
(* C4: the clauses of every compiled text come in the order MATCH lines,   *)
(* at most one WHERE, then WITH (WHERE) RETURN or a single RETURN, at most *)
(* one ORDER BY, at most one SKIP, at most one LIMIT.                      *)
(***************************************************************************)
C4_ClauseOrder ==
    Compiles =>
        LET k == Keywords(last.text)
            m == Len(SelectSeq(k, LAMBDA x : x = "MATCH"))
        IN /\ m >= 1
           /\ \A i \in 1..m : k[i] = "MATCH"
           /\ SubSeq(k, m + 1, Len(k)) \in ClauseTails

\* A compiled text that has every clause.
C4_Witness ==
    /\ Compiles
    /\ Keywords(last.text) =
           <<"MATCH", "MATCH", "WHERE", "WITH", "WHERE", "RETURN", "ORDER BY",
             "SKIP", "LIMIT">>

\* No root pattern is among the match fragments: no find has completed.
NoRootEstablished ==
    \A i \in 1..Len(query_parts.match_clauses) :
        ~IsRoot(query_parts.match_clauses[i])

(***************************************************************************)
(* C5: while no find call has completed successfully (no root pattern was  *)
(* added), to_cypher fails with NoMatchClause and returns no text.         *)
(***************************************************************************)
C5_NoRootNoText ==
    (last.op = "to_cypher" /\ NoRootEstablished)
        => (last.status = "NoMatchClause" /\ last.text = <<>>)

(***************************************************************************)
(* C6: the match fragments of a compiled text are the session's fragments  *)
(* in call order, the first is a root pattern, and the source alias of     *)
(* every traversal fragment is introduced by an earlier fragment.          *)
(***************************************************************************)
C6_SourceBoundEarlier ==
    Compiles =>
        LET mc == query_parts.match_clauses
        IN /\ SubSeq(last.text, 1, Len(mc)) = mc
           /\ IsRoot(mc[1])
           /\ \A i \in 1..Len(mc) :
                  IsTraversal(mc[i]) =>
                      \E j \in 1..(i - 1) :
                          Introduced(j) =
                              relationships[TraversalIndex(i)].from_node_alias

(***************************************************************************)
(* C7: a string filter value holding a denylisted keyword or comment       *)
(* delimiter never reaches a parameter map returned by to_cypher, whether  *)
(* it came in through find, where or having.                               *)
(***************************************************************************)
C7_NoDenylistedParam ==
    Compiles =>
        \A n \in DOMAIN last.params : validate_cypher_injection(last.params[n])

\* The values of the conditions a compilation reads, in its order.
CompiledValues ==
    AtomValuesOfAll(query_parts.where_conditions)
    \o (IF query_parts.group_by # <<>> /\ query_parts.return_fields # <<>>
        THEN AtomValuesOfAll(query_parts.having_conditions) ELSE <<>>)

(***************************************************************************)
(* C8: every value of a find filter or of an atomic predicate reaches the  *)
(* output as a parameter-map entry behind a $param_N placeholder, never as *)
(* part of the text; null checks carry no value.                           *)
(***************************************************************************)
C8_ValuesOnlyAsParams ==
    Compiles =>
        /\ \A i \in 1..Len(TextTokens(last.text)) :
               TextTokens(last.text)[i].t # "lit"
        /\ Len(ParamTokens(last.text))
               = Len(CompiledValues) + Cardinality(DOMAIN filter_params)
        /\ Range(last.params) = Range(CompiledValues) \cup Range(filter_params)
        /\ \A n \in DOMAIN filter_params : last.params[n] = filter_params[n]

\* A compiled WHERE with a null check beside predicates that carry values,
\* and an inline filter.
C8_Witness ==
    /\ Compiles
    /\ filter_params # <<>>
    /\ Len(CompiledValues) >= 2
    /\ \E i \in 1..Len(TextTokens(last.text)) :
           TextTokens(last.text)[i] = Kw("IS NULL")

\* The pattern of a step with its arrow pointing as the direction says.
DirectedPattern(r) ==
    LET source == <<Sym("("), Tok("alias", r.from_node_alias, 0), Sym(")")>>
        target == to_pattern(r.to_node_alias, r.to_node_type)
        rel == rel_pattern(r.relationship_type, r.hops)
    IN CASE r.direction = "out" ->
                source \o <<Sym("-")>> \o rel \o <<Sym("->")>> \o target
         [] r.direction = "in" ->
                target \o <<Sym("<-")>> \o rel \o <<Sym("-")>> \o source
         [] OTHER ->
                source \o <<Sym("-")>> \o rel \o <<Sym("-")>> \o target

(***************************************************************************)
(* C9: a traversal fragment renders 'out' as (source)-[rel]->(target),     *)
(* 'in' as (target)<-[rel]-(source) and 'both' with a dash on both sides.  *)
(***************************************************************************)
C9_DirectionRendered ==
    \A i \in 1..Len(query_parts.match_clauses) :
        IsTraversal(query_parts.match_clauses[i]) =>
            query_parts.match_clauses[i].body
                = DirectedPattern(relationships[TraversalIndex(i)])

(***************************************************************************)
(* C10: the relationship token of a traversal fragment carries the suffix  *)
(* *1..N exactly when hops = N > 1, and no range suffix otherwise.         *)
(***************************************************************************)
C10_HopRange ==
    \A i \in 1..Len(query_parts.match_clauses) :
        IsTraversal(query_parts.match_clauses[i]) =>
            LET hops == relationships[TraversalIndex(i)].hops
                ranges == SelectSeq(query_parts.match_clauses[i].body, IsRange)
            IN IF hops > 1
               THEN ranges = <<Tok("range", "*1..", hops)>>
               ELSE ranges = <<>>

\* A traversal of several hops, rendered with its range.
C10_Witness ==
    \E i \in 1..Len(query_parts.match_clauses) :
        /\ IsTraversal(query_parts.match_clauses[i])
        /\ relationships[TraversalIndex(i)].hops = 3
        /\ \E k \in 1..Len(query_parts.match_clauses[i].body) :
               query_parts.match_clauses[i].body[k] = Tok("range", "*1..", 3)

(***************************************************************************)
(* SpecGroup: sessions of the aggregation branch (group_by, return_fields, *)
(* having).                                                                *)
(***************************************************************************)
F_MAX == <<"max(", "n", ")">>

NextGroup ==
    \/ find("AS", "as", <<>>) /\ UNCHANGED translation
    \/ where(Q(F_ASN, "=", V_ASN)) /\ UNCHANGED translation
    \/ having(Q(F_BARE, ">", V_ASN)) /\ UNCHANGED translation
    \/ \E f \in {<<>>, <<F_ASN>>, <<F_NAME, F_ASN>>} : group_by(f) /\ UNCHANGED translation
    \/ \E f \in {<<>>, <<F_ASN, F_COUNT>>, <<F_ASN, F_NAME, F_MAX>>} : return_fields(f) /\ UNCHANGED translation
    \/ to_cypher /\ UNCHANGED translation

SpecGroup == Init /\ [][NextGroup]_vars

\* A field that calls one of the aggregate functions the package offers
\* (count, sum_field, avg, min_field, max_field).
IsAggregateExpr(field) ==
    \E i \in 1..Len(field) :
        lower_piece(field[i]) \in {"count(", "sum(", "avg(", "min(", "max("}

RECURSIVE WithList(_, _)
\* The listed fields, then each further field that is no aggregate
\* expression and is not listed yet.
WithList(listed, fields) ==
    IF fields = <<>> THEN listed
    ELSE WithList(IF ~IsAggregateExpr(fields[1]) /\ fields[1] \notin Range(listed)
                  THEN Append(listed, fields[1]) ELSE listed,
                  Tail(fields))

\* A fragment with its parameter names blanked.
StripNames(tokens) ==
    [i \in 1..Len(tokens) |-> IF IsParam(tokens[i]) THEN Param(0) ELSE tokens[i]]

(***************************************************************************)
(* C11: with group-by and return fields both set, the compiled text has a  *)
(* WITH line listing the group-by fields and then each return field that   *)
(* is no aggregate expression and not yet listed; then, when a having      *)
(* condition exists, a WHERE line built from the having conditions; then   *)
(* RETURN with exactly the return fields.  No aggregate return field is in *)
(* the WITH list.                                                          *)
(***************************************************************************)
C11_WithClause ==
    (Compiles /\ query_parts.group_by # <<>> /\ query_parts.return_fields # <<>>)
    =>
    LET qp == query_parts
        n == Len(qp.match_clauses) + (IF qp.where_conditions # <<>> THEN 1 ELSE 0)
        t == last.text
    IN /\ t[n + 1] = Line("WITH", field_list(WithList(qp.group_by, qp.return_fields)))
       /\ \A i \in 1..Len(t[n + 1].body) :
              t[n + 1].body[i].t = "field"
                  => (t[n + 1].body[i].ref \in Range(qp.return_fields)
                          => ~IsAggregateExpr(t[n + 1].body[i].ref))
       /\ IF qp.having_conditions # <<>>
          THEN /\ t[n + 2].kw = "WHERE"
               /\ StripNames(t[n + 2].body)
                      = StripNames(combine(qp.having_conditions, 0).cypher)
               /\ t[n + 3] = Line("RETURN", field_list(qp.return_fields))
          ELSE t[n + 2] = Line("RETURN", field_list(qp.return_fields))

\* A match fragment registers the alias it introduces unless it is a
\* traversal without a target kind.
Registers(i) ==
    IsTraversal(query_parts.match_clauses[i])
        => relationships[TraversalIndex(i)].to_node_type # None

RECURSIVE RegisteredUpTo(_)
\* The aliases registered by the first i match fragments, in call order.
RegisteredUpTo(i) ==
    IF i = 0 THEN <<>>
    ELSE RegisteredUpTo(i - 1) \o (IF Registers(i) THEN <<Introduced(i)>> ELSE <<>>)

(***************************************************************************)
(* C12: with no group-by and no return fields, the compiled text ends in   *)
(* RETURN followed by every registered alias, in the order in which the    *)
(* aliases were registered (stated for the sessions in which every         *)
(* registration came from a call that added its fragment).                 *)
(***************************************************************************)
C12_ReturnAllAliases ==
    LET mc == query_parts.match_clauses
        order == RegisteredUpTo(Len(mc))
    IN (/\ Compiles
        /\ query_parts.group_by = <<>>
        /\ query_parts.return_fields = <<>>
        /\ Len(order) = Cardinality(validator.defined_aliases))
       => last.text[Len(mc) + 1] = Line("RETURN", alias_list(order))

(***************************************************************************)
(* SpecCond: sessions whose WHERE and HAVING conditions range over the     *)
(* combinators, empty ones and atoms without an operator included.         *)
(***************************************************************************)
Q_UNSET == Q(F_NAME, None, NoneV)

CondInputs ==
    {Q(F_ASN, "=", V_ASN),
     And(<<>>),
     Or(<<>>),
     And(<<Q(F_ASN, "=", V_ASN)>>),
     And(<<Or(<<Q(F_NAME, "IS NULL", NoneV), Q(F_ASN, ">", V_ASN)>>)>>),
     Not(Not(Q(F_ASN, "=", V_ASN))),
     Q_UNSET,
     And(<<Q(F_ASN, "=", V_ASN), Not(Q_UNSET)>>)}

NextCond ==
    \/ find("AS", "as", <<>>) /\ UNCHANGED translation
    \/ \E c \in CondInputs : where(c) /\ UNCHANGED translation
    \/ having(Or(<<Not(Q_UNSET)>>)) /\ UNCHANGED translation
    \/ to_cypher /\ UNCHANGED translation

SpecCond == Init /\ [][NextCond]_vars

Wrapped(fragment) == <<Sym("(")>> \o fragment \o <<Sym(")")>>

(***************************************************************************)
(* C13: And() compiles to true and Or() to false, both without parameters; *)
(* And(A) compiles to A's fragment wrapped once in parentheses, with A's   *)
(* parameters; Not(Not(A)) compiles to NOT (NOT (A)) with A's parameters   *)
(* and is not simplified to A.  Read off the WHERE line of a session whose *)
(* only condition is the combinator.                                       *)
(***************************************************************************)
C13_CombinatorIdentities ==
    [][(/\ last'.op = "to_cypher"
        /\ last'.status = "ok"
        /\ Len(query_parts.where_conditions) = 1)
       =>
       LET c == query_parts.where_conditions[1]
           body == last'.text[Len(query_parts.match_clauses) + 1].body
       IN /\ c = And(<<>>) => (body = <<Kw("true")>> /\ last'.params = <<>>)
          /\ c = Or(<<>>) => (body = <<Kw("false")>> /\ last'.params = <<>>)
          /\ (c.type = "And" /\ Len(c.conditions) = 1) =>
                 LET a == Condition_to_cypher(c.conditions[1], param_counter)
                 IN /\ body = Wrapped(a.cypher)
                    /\ last'.params = a.params
          /\ (c.type = "Not" /\ c.condition.type = "Not") =>
                 LET a == Condition_to_cypher(c.condition.condition, param_counter)
                 IN /\ body = <<Kw("NOT")>> \o Wrapped(<<Kw("NOT")>> \o Wrapped(a.cypher))
                    /\ body # a.cypher
                    /\ last'.params = a.params]_vars

\* A doubly negated atom, compiled with its parameter.
C13_Witness ==
    /\ Compiles
    /\ query_parts.where_conditions = <<Not(Not(Q(F_ASN, "=", V_ASN)))>>
    /\ Len(SelectSeq(TextTokens(last.text), LAMBDA tok : tok = Kw("NOT"))) = 2
    /\ Range(last.params) = {V_ASN}

RECURSIVE HasUnsetOperator(_)
\* The condition tree holds an atomic predicate without an operator.
HasUnsetOperator(cond) ==
    CASE cond.type = "Q" -> cond.operator = None
      [] cond.type = "Not" -> HasUnsetOperator(cond.condition)
      [] OTHER -> \E i \in 1..Len(cond.conditions) :
                      HasUnsetOperator(cond.conditions[i])

(***************************************************************************)
(* C14: where and having reject a condition tree that holds an atomic      *)
(* predicate without an operator, at any depth; so no session stores one   *)
(* and to_cypher never starts compiling one.                               *)
(***************************************************************************)
C14_UnsetRejectedAtCall ==
    /\ \A i \in 1..Len(query_parts.where_conditions) :
           ~HasUnsetOperator(query_parts.where_conditions[i])
    /\ \A i \in 1..Len(query_parts.having_conditions) :
           ~HasUnsetOperator(query_parts.having_conditions[i])

(***************************************************************************)
(* SpecCount: sessions that call count() between the builder calls.        *)
(***************************************************************************)
NextCount ==
    \/ \E i \in {FindInput("AS", "as", << <<"asn", V_ASN>> >>),
                 FindInput("AS", None, <<>>)} :
           find(i.node_type, i.alias, i.filters) /\ UNCHANGED translation
    \/ where(Q(F_NAME, "=", V_US)) /\ UNCHANGED translation
    \/ return_fields(<<F_ASN>>) /\ UNCHANGED translation
    \/ limit(10) /\ UNCHANGED translation
    \/ count /\ UNCHANGED translation
    \/ to_cypher /\ UNCHANGED translation

SpecCount == Init /\ [][NextCount]_vars

(***************************************************************************)
(* C15: a count() call leaves the session as it was: match fragments,      *)
(* where and having conditions, return, order-by and group-by lists,       *)
(* limit, skip, alias table and parameter counter; so to_cypher returns    *)
(* after it what it would have returned without it.                        *)
(***************************************************************************)
C15_CountLeavesSession ==
    [][last'.op = "count"
       => /\ query_parts' = query_parts
          /\ validator' = validator
          /\ param_counter' = param_counter
          /\ UNCHANGED <<relationships, root_alias, root_node_type, filter_params>>
          /\ to_cypher_run' = to_cypher_run]_vars

\* count() has run on a session with a filter, a condition, return fields
\* and a limit, after a compilation had advanced the parameter counter.
C15_Witness ==
    /\ last.op = "count"
    /\ last.status = "ok"
    /\ param_counter > Cardinality(DOMAIN filter_params)
    /\ filter_params # <<>>
    /\ query_parts.where_conditions # <<>>
    /\ query_parts.return_fields = <<F_ASN>>
    /\ query_parts.limit = <<10>>

(***************************************************************************)
(* C16: the query count() hands to the executor is well formed: every      *)
(* $param_N token of its text has an entry in its parameter map, and no    *)
(* name is used by two occurrences that stand for different values.        *)
(***************************************************************************)
C16_CountQueryWellFormed ==
    (last.op = "count" /\ last.status = "ok") =>
        /\ \A i \in 1..Len(ParamTokens(last.text)) :
               ParamTokens(last.text)[i].n \in DOMAIN last.params
        /\ Len(ParamTokens(last.text)) = Cardinality(DOMAIN last.params)

(***************************************************************************)
(* C18: a with_relationship call made without from_node takes as its       *)
(* source the node introduced by the latest find or traversal call before  *)
(* it (the previous node of the chain); stated for the sessions in which   *)
(* every call so far that registered an alias also added its fragment.     *)
(***************************************************************************)
C18_SourceIsPreviousNode ==
    [][\A i \in WithInputsMatch :
           (/\ i.from_node = None
            /\ query_parts.match_clauses # <<>>
            /\ Len(RegisteredUpTo(Len(query_parts.match_clauses)))
                   = Cardinality(validator.defined_aliases)
            /\ with_relationship(i.relationship, i.to, i.from_node, i.alias,
                                 i.direction, i.hops)
            /\ last'.status = "ok")
           => relationships'[Len(relationships')].from_node_alias
                  = Introduced(Len(query_parts.match_clauses))]_vars

(***************************************************************************)
(* SpecDict: sessions whose where calls are given condition dictionaries.  *)
(***************************************************************************)
D_GT == DictV(<< <<F_ASN, DictV(<< <<">", V_ASN>> >>)>> >>)
D_BOGUS == DictV(<< <<F_ASN, DictV(<< <<"bogus", V_ASN>> >>)>> >>)
D_BOGUS_SECOND ==
    DictV(<< <<F_ASN, DictV(<< <<">", V_ASN>>, <<"bogus", V_ASN>> >>)>> >>)

DictInputs ==
    {DictV(<< <<F_NAME, V_US>> >>),
     D_GT,
     D_BOGUS,
     D_BOGUS_SECOND,
     DictV(<< <<<<"AND">>,
               ListV(<<DictV(<< <<F_ASN, DictV(<< <<"!=", V_ASN>> >>)>> >>),
                       DictV(<< <<<<"NOT">>, D_BOGUS>> >>)>>)>> >>),
     DictV(<< <<<<"OR">>, ListV(<<D_GT, DictV(<< <<F_NAME, V_US>> >>)>>)>> >>),
     DictV(<< <<F_ASN, DictV(<<>>)>> >>),
     DictV(<<>>)}

NextDict ==
    \/ find("AS", "as", <<>>) /\ UNCHANGED translation
    \/ \E d \in DictInputs : where(d) /\ UNCHANGED translation
    \/ to_cypher /\ UNCHANGED translation

SpecDict == Init /\ [][NextDict]_vars

RECURSIVE HasUnknownOperator(_)
\* The dictionary holds, for some field, an operator key outside the known
\* set: at any position among that field's operator keys, and at any depth
\* under the 'AND', 'OR' and 'NOT' keys.
HasUnknownOperator(d) ==
    \E i \in 1..Len(d.items) :
        LET key == d.items[i][1]
            value == d.items[i][2]
        IN IF key \in {<<"AND">>, <<"OR">>}
           THEN \E j \in 1..Len(value.items) : HasUnknownOperator(value.items[j])
           ELSE IF key = <<"NOT">> THEN HasUnknownOperator(value)
           ELSE /\ isinstance_dict(value)
                /\ \E j \in 1..Len(value.items) :
                       operator_of(value.items[j][1]) = None

(***************************************************************************)
(* C19: for every dictionary that holds an operator key outside the known  *)
(* operator set, at any depth under AND/OR/NOT and at any position among   *)
(* the operator keys of a field, dict_to_condition fails with              *)
(* UnknownOperator and hands back no condition (the where call given the   *)
(* dictionary raises it and stores nothing).                               *)
(***************************************************************************)
C19_UnknownOperatorFails ==
    [][\A d \in DictInputs :
           (HasUnknownOperator(d) /\ where(d))
           => (/\ last' = Raised("where", "UnknownOperator")
               /\ query_parts' = query_parts)]_vars

(***************************************************************************)
(* SpecFields: sessions that name fields of registered and unregistered    *)
(* aliases, of a kind with a property list (AS) and of one without         *)
(* (Estimate).                                                             *)
(***************************************************************************)
F_AS_BOGUS == <<"as", ".", "bogus">>
F_E_ANY == <<"e", ".", "anything">>
F_ZZ == <<"zz", ".", "asn">>

FieldInputs ==
    {<<F_ASN>>, <<F_BARE, F_AS_BOGUS>>, <<F_E_ANY, F_NAME>>, <<F_ZZ>>, <<F_BARE>>}

OrderInputs ==
    {<<F_DESC>>, <<<<"-", "e", ".", "anything">>, F_BARE>>, <<<<"-", "as", ".", "bogus">>>>}

NextFields ==
    \/ \E i \in {FindInput("AS", "as", <<>>), FindInput("Estimate", "e", <<>>)} :
           find(i.node_type, i.alias, i.filters) /\ UNCHANGED translation
    \/ \E f \in FieldInputs : return_fields(f) /\ UNCHANGED translation
    \/ \E f \in FieldInputs : group_by(f) /\ UNCHANGED translation
    \/ \E f \in OrderInputs : order_by(f) /\ UNCHANGED translation
    \/ to_cypher /\ UNCHANGED translation

SpecFields == Init /\ [][NextFields]_vars

IsDotted(ref) == \E i \in 1..Len(ref) : ref[i] = "."

\* The alias part (left of the first dot) and the property part of a
\* dotted reference.
AliasOf(ref) == concat(SubSeq(ref, 1, first_dot(ref) - 1))
PropertyOf(ref) == concat(SubSeq(ref, first_dot(ref) + 1, Len(ref)))

\* The reference is one the session accepts as it stands.
Accepts(ref) ==
    IsDotted(ref) =>
        /\ AliasOf(ref) \in validator.defined_aliases
        /\ NODE_PROPERTIES(validator.node_types[AliasOf(ref)]) # {}
               => PropertyOf(ref) \in NODE_PROPERTIES(validator.node_types[AliasOf(ref)])

\* Every dotted reference the session stores names a registered alias.
StoredReferencesRegistered ==
    \A ref \in Range(query_parts.return_fields) \cup Range(query_parts.group_by)
               \cup {lstrip(o) : o \in Range(query_parts.order_by)} :
        IsDotted(ref) => AliasOf(ref) \in validator.defined_aliases

(***************************************************************************)
(* C20: return_fields, group_by and order_by accept a list exactly when    *)
(* each of its references either has no dot or names an alias registered   *)
(* at the time of the call and, if the alias's kind has a property list, a *)
(* property of that list; an accepted list is stored, a rejected one       *)
(* changes nothing; so every dotted reference stored names a registered    *)
(* alias.                                                                  *)
(***************************************************************************)
C20_DottedReferences ==
    [][/\ \A f \in FieldInputs :
              /\ return_fields(f) =>
                     IF \A i \in 1..Len(f) : Accepts(f[i])
                     THEN last'.status = "ok" /\ query_parts'.return_fields = f
                     ELSE last'.status \in {"UnknownAlias", "InvalidProperty"}
                          /\ query_parts' = query_parts
              /\ group_by(f) =>
                     IF \A i \in 1..Len(f) : Accepts(f[i])
                     THEN last'.status = "ok" /\ query_parts'.group_by = f
                     ELSE last'.status \in {"UnknownAlias", "InvalidProperty"}
                          /\ query_parts' = query_parts
       /\ \A f \in OrderInputs :
              order_by(f) =>
                  IF \A i \in 1..Len(f) : Accepts(lstrip(f[i]))
                  THEN last'.status = "ok" /\ query_parts'.order_by = f
                  ELSE last'.status \in {"UnknownAlias", "InvalidProperty"}
                       /\ query_parts' = query_parts
       /\ StoredReferencesRegistered']_vars

\* A property outside the list of AS was refused while the session stores
\* a reference to an alias whose kind has no property list.
C20_Witness ==
    /\ last.status = "InvalidProperty"
    /\ F_E_ANY \in Range(query_parts.return_fields)
    /\ query_parts.order_by # <<>>
    /\ validator.defined_aliases = {"as", "e"}

(***************************************************************************)
(* SpecTranslate: the translation service given method chains of up to     *)
(* MaxChain names, with and without request parameters, with and without   *)
(* a connection.                                                           *)
(***************************************************************************)
MaxChain == 2

ChainNames ==
    {"find", "upstream", "with_organization", "where", "limit", "order_by",
     "to_cypher", "execute", "execute_single", "count"}

RECURSIVE dotted(_)
\* The method chain string of a sequence of names: '.find.upstream'.
dotted(names) ==
    IF names = <<>> THEN <<>> ELSE <<".", names[1]>> \o dotted(Tail(names))

ChainInputs ==
    {dotted(names) : names \in UNION {[1..n -> ChainNames] : n \in 0..MaxChain}}
    \cup {<<" ", "find", ".", " ", "count", " ">>}

ParamsInputs ==
    {DictV(<<>>),
     DictV(<< <<<<"asn">>, V_ASN>>, <<<<"hops">>, IntV(2)>>,
              <<<<"condition">>, Q(<<"node", ".", "asn">>, ">", V_ASN)>> >>)}

InitTranslate ==
    /\ new_builder
    /\ \E iyp \in BOOLEAN : translation = CypherTranslationService(iyp)

NextTranslate ==
    \/ \E c \in ChainInputs, p \in ParamsInputs : translate_method_chain(c, p)
    \/ apply_method
    \/ generate

SpecTranslate == InitTranslate /\ [][NextTranslate]_vars

(***************************************************************************)
(* C17: translate_method_chain translates without executing: whatever      *)
(* method names the chain holds, no step of a translation runs execute,    *)
(* execute_df, execute_raw, execute_single or count on the executor.       *)
(***************************************************************************)
C17_TranslateNeverExecutes ==
    translation.at # "idle"
        => ~(last.op \in ExecuteMethods \cup {"count"} /\ last.status = "ok")

(***************************************************************************)
(* SpecBounds: limit and skip calls with values on both sides of their     *)
(* bounds, on a session that find may have started.                        *)
(***************************************************************************)
LIMIT_MAX == 100000

LimitInputs == {-1, 0, 10, LIMIT_MAX, LIMIT_MAX + 1}

SkipInputs == {-1, 0, 5}

NextBounds ==
    \/ find("AS", "as", <<>>) /\ UNCHANGED translation
    \/ \E n \in LimitInputs : limit(n) /\ UNCHANGED translation
    \/ \E n \in SkipInputs : skip(n) /\ UNCHANGED translation
    \/ to_cypher /\ UNCHANGED translation

SpecBounds == Init /\ [][NextBounds]_vars

\* The stored limit and skip are unset or within their bounds.
BoundsStored ==
    /\ query_parts.limit # <<>> => query_parts.limit[1] \in 0..LIMIT_MAX
    /\ query_parts.skip # <<>> => query_parts.skip[1] >= 0

(***************************************************************************)
(* C21: the stored limit is unset or an integer in 0..100000 and the       *)
(* stored skip is unset or non-negative, before and after every step; a    *)
(* limit call with a negative value or one above 100000, and a skip call   *)
(* with a negative value, fails with InvalidBound and leaves the stored    *)
(* limit and skip as they were.                                            *)
(***************************************************************************)
C21_LimitSkipBounds ==
    [][/\ BoundsStored /\ BoundsStored'
       /\ \A n \in LimitInputs :
              (limit(n) /\ n \notin 0..LIMIT_MAX)
                  => last' = Raised("limit", "InvalidBound") /\ UNCHANGED query_parts
       /\ \A n \in SkipInputs :
              (skip(n) /\ n < 0)
                  => last' = Raised("skip", "InvalidBound") /\ UNCHANGED query_parts]_vars

\* A limit above the bound has just been refused on a session that holds a
\* limit and a skip from earlier calls.
C21_Witness ==
    /\ last = Raised("limit", "InvalidBound")
    /\ query_parts.limit = <<10>>
    /\ query_parts.skip = <<5>>

(***************************************************************************)
(* C22: to_cypher changes nothing of the session but the parameter         *)
(* counter; no step makes the counter smaller; and the names a to_cypher   *)
(* run hands out lie at or above the counter it started from, while every  *)
(* name handed out before (by find for its filters, by the compilation     *)
(* before) lies below it.                                                  *)
(***************************************************************************)
C22_ToCypherFrame ==
    [][/\ param_counter' >= param_counter
       /\ last'.op = "to_cypher"
              => /\ UNCHANGED <<query_parts, validator, relationships, root_alias,
                                root_node_type, filter_params>>
                 /\ DOMAIN filter_params \subseteq 0..(param_counter - 1)
                 /\ DOMAIN last.params \subseteq 0..(param_counter - 1)
                 /\ last'.status = "ok"
                        => DOMAIN last'.params \ DOMAIN filter_params
                               = param_counter..(param_counter' - 1)]_vars

\* A second compilation of a session with a filter and a condition: its
\* condition parameter is neither the filter's name nor the name the first
\* compilation gave the condition.
C22_Witness ==
    /\ Compiles
    /\ filter_params # <<>>
    /\ query_parts.where_conditions # <<>>
    /\ DOMAIN last.params \ DOMAIN filter_params # {}
    /\ \A n \in DOMAIN last.params \ DOMAIN filter_params :
           n > Cardinality(DOMAIN filter_params)

(***************************************************************************)
(* traversals.py: TraversalStep.to_cypher_pattern                          *)
(***************************************************************************)
TraversalStep(relationship, direction, target_node_type, alias, hops) ==
    [relationship |-> relationship, direction |-> direction,
     target_node_type |-> target_node_type, alias |-> alias, hops |-> hops]

\* The pattern as the tokens of the f-strings, in their order.
to_cypher_pattern(step, source_alias) ==
    LET arrow == IF step.direction = "out" THEN Sym("->")
                 ELSE IF step.direction = "in" THEN Sym("<-")
                 ELSE Sym("-")
        rel_pattern_ == <<Sym("["), Sym(":"), Tok("rel", step.relationship, 0)>>
                        \o (IF step.hops > 1
                            THEN <<Tok("range", "*1..", step.hops)>> ELSE <<>>)
                        \o <<Sym("]")>>
        type_pattern == IF step.target_node_type # None
                        THEN <<Tok("label", step.target_node_type, 0)>> ELSE <<>>
        target_pattern ==
            IF step.alias # None
            THEN IF type_pattern # <<>>
                 THEN <<Tok("alias", step.alias, 0), Sym(":")>> \o type_pattern
                 ELSE <<Tok("alias", step.alias, 0)>>
            ELSE type_pattern
        source == <<Sym("("), Tok("alias", source_alias, 0), Sym(")")>>
        target == <<Sym("(")>> \o target_pattern \o <<Sym(")")>>
    IN IF step.direction = "in"
       THEN target \o <<arrow>> \o rel_pattern_ \o <<Sym("-")>> \o source
       ELSE source \o <<arrow>> \o rel_pattern_ \o <<Sym("-")>> \o target

(***************************************************************************)
(* SpecTraversal: a TraversalStep is constructed, then rendered from a     *)
(* source alias.  last holds the step, and after the call the pattern.     *)
(***************************************************************************)
TraversalSteps ==
    {TraversalStep(r, d, t, a, h) :
         r \in {"DEPENDS_ON", "PEERS_WITH"}, d \in {"out", "in", "both"},
         t \in {None, "AS"}, a \in {None, "t"}, h \in {1, 2, 3}}

SourceAliases == {"s", "as"}

InitTraversal ==
    /\ validator = QueryValidator
    /\ query_parts = QueryPart
    /\ param_counter = 0
    /\ relationships = <<>>
    /\ root_alias = None
    /\ root_node_type = None
    /\ filter_params = <<>>
    /\ translation = CypherTranslationService(TRUE)
    /\ \E step \in TraversalSteps :
           last = [op |-> "TraversalStep", status |-> "ok", text |-> <<>>,
                   source_alias |-> None, params |-> step]

\* step.to_cypher_pattern(source_alias)
to_cypher_pattern_call(source_alias) ==
    /\ last.op = "TraversalStep"
    /\ last' = [op |-> "to_cypher_pattern", status |-> "ok",
                text |-> to_cypher_pattern(last.params, source_alias),
                source_alias |-> source_alias, params |-> last.params]
    /\ UNCHANGED <<validator, query_parts, param_counter, relationships,
                   root_alias, root_node_type, filter_params, translation>>

NextTraversal == \E source_alias \in SourceAliases : to_cypher_pattern_call(source_alias)

SpecTraversal == InitTraversal /\ [][NextTraversal]_vars

\* The node and relationship parts a rendered step is made of.
SourceNode == <<Sym("("), Tok("alias", last.source_alias, 0), Sym(")")>>

TargetNode ==
    <<Sym("(")>>
    \o (IF last.params.alias # None THEN <<Tok("alias", last.params.alias, 0)>> ELSE <<>>)
    \o (IF last.params.alias # None /\ last.params.target_node_type # None
        THEN <<Sym(":")>> ELSE <<>>)
    \o (IF last.params.target_node_type # None
        THEN <<Tok("label", last.params.target_node_type, 0)>> ELSE <<>>)
    \o <<Sym(")")>>

RelToken ==
    <<Sym("["), Sym(":"), Tok("rel", last.params.relationship, 0)>>
    \o (IF last.params.hops > 1
        THEN <<Tok("range", "*1..", last.params.hops)>> ELSE <<>>)
    \o <<Sym("]")>>

(***************************************************************************)
(* C23: to_cypher_pattern renders an outgoing step as                      *)
(* (source)-[rel]->(target), an incoming step as (target)<-[rel]-(source)  *)
(* and an either-direction step as (source)-[rel]-(target), for every      *)
(* relationship kind, hop count and target alias / kind.                   *)
(***************************************************************************)
C23_PatternDirection ==
    last.op = "to_cypher_pattern" =>
        last.text =
            CASE last.params.direction = "out" ->
                     SourceNode \o <<Sym("-")>> \o RelToken \o <<Sym("->")>> \o TargetNode
              [] last.params.direction = "in" ->
                     TargetNode \o <<Sym("<-")>> \o RelToken \o <<Sym("-")>> \o SourceNode
              [] OTHER ->
                     SourceNode \o <<Sym("-")>> \o RelToken \o <<Sym("-")>> \o TargetNode

(***************************************************************************)
(* SpecOr: sessions whose one WHERE condition is an And or an Or over the  *)
(* same children.                                                          *)
(***************************************************************************)
Q_NULL == Q(F_NAME, "IS NULL", NoneV)
Q_ASN == Q(F_ASN, "=", V_ASN)

OrInputs ==
    {Or(<<Q_ASN>>), And(<<Q_ASN>>),
     Or(<<Q_NULL, Q_ASN>>), And(<<Q_NULL, Q_ASN>>),
     Or(<<And(<<Q_NULL, Q_ASN>>), Not(Q_NULL)>>),
     And(<<Or(<<Q_NULL, Q_ASN>>), Not(Q_NULL)>>)}

NextOr ==
    \/ find("AS", "as", <<>>) /\ UNCHANGED translation
    \/ \E c \in OrInputs : where(c) /\ UNCHANGED translation
    \/ to_cypher /\ UNCHANGED translation

SpecOr == Init /\ [][NextOr]_vars

(***************************************************************************)
(* C24: an Or with children compiles by And's rule: every child fragment   *)
(* wrapped in parentheses, the wrapped fragments joined by OR where And    *)
(* joins them by AND, and nothing else.  Read off the WHERE line of a      *)
(* session whose only condition is the combinator.                         *)
(***************************************************************************)
C24_OrLikeAnd ==
    [][(/\ last'.op = "to_cypher"
        /\ last'.status = "ok"
        /\ Len(query_parts.where_conditions) = 1
        /\ query_parts.where_conditions[1].type \in {"And", "Or"}
        /\ query_parts.where_conditions[1].conditions # <<>>)
       =>
       LET c == query_parts.where_conditions[1]
           children == children_to_cypher(c.conditions, param_counter, <<>>, <<>>)
           body == last'.text[Len(query_parts.match_clauses) + 1].body
       IN body = join(Kw(IF c.type = "And" THEN "AND" ELSE "OR"), children.parts)]_vars

(***************************************************************************)
(* SpecOrder: sessions ordered by fields with no, one and two leading      *)
(* descending markers.                                                     *)
(***************************************************************************)
F_DESC2 == <<"-", "-", "as", ".", "asn">>

OrderByInputs ==
    {<<F_NAME>>, <<F_DESC>>, <<F_DESC, F_NAME>>, <<F_DESC2>>, <<F_NAME, F_DESC2>>,
     <<<<"-", "as", ".", "bogus">>>>, <<>>}

NextOrder ==
    \/ find("AS", "as", <<>>) /\ UNCHANGED translation
    \/ \E f \in OrderByInputs : order_by(f) /\ UNCHANGED translation
    \/ \E n \in {1, 10} : limit(n) /\ UNCHANGED translation
    \/ skip(5) /\ UNCHANGED translation
    \/ to_cypher /\ UNCHANGED translation

SpecOrder == Init /\ [][NextOrder]_vars

\* The body of the ORDER BY line of a text.
OrderLine(text) == (SelectSeq(text, LAMBDA line : line.kw = "ORDER BY"))[1].body

(***************************************************************************)
(* C25: for every stored order_by entry, the field to_cypher puts in front *)
(* of DESC or ASC is the field validate_order_by validated, i.e. the entry *)
(* without its leading markers, and the entry is rendered DESC exactly     *)
(* when it carried a marker; entries keep their order.                     *)
(***************************************************************************)
C25_OrderFieldAsValidated ==
    (Compiles /\ query_parts.order_by # <<>>) =>
        OrderLine(last.text)
            = join(Sym(","),
                   [i \in 1..Len(query_parts.order_by) |->
                       LET entry == query_parts.order_by[i]
                       IN <<FieldTok(lstrip(entry)),
                            Kw(IF entry[1] = "-" THEN "DESC" ELSE "ASC")>>])

(***************************************************************************)
(* SpecAlias: traversals whose target alias, given or generated, is an     *)
(* alias the session already uses, with and without a target kind.         *)
(***************************************************************************)
FindInputsAlias ==
    {FindInput("AS", "as", <<>>), FindInput("AS", "node_0", <<>>)}

WithInputsAlias ==
    {WithInput("MANAGED_BY", "Organization", None, "as", "out", 1),
     WithInput("MANAGED_BY", "Organization", None, "org", "out", 1),
     WithInput("MANAGED_BY", None, None, "as", "out", 1),
     WithInput("COUNTRY", None, None, "x", "out", 1),
     WithInput("MANAGED_BY", None, None, None, "out", 1)}

NextAlias ==
    \/ \E i \in FindInputsAlias : find(i.node_type, i.alias, i.filters) /\ UNCHANGED translation
    \/ \E i \in WithInputsAlias :
           with_relationship(i.relationship, i.to, i.from_node, i.alias,
                             i.direction, i.hops) /\ UNCHANGED translation
    \/ to_cypher /\ UNCHANGED translation

SpecAlias == Init /\ [][NextAlias]_vars

(***************************************************************************)
(* C26: every alias is introduced as a new node by at most one match       *)
(* fragment of the session, whether the fragment names a target kind or    *)
(* not: a with_relationship call whose target alias is already in use adds *)
(* no fragment.                                                            *)
(***************************************************************************)
C26_AliasIntroducedOnce ==
    \A i, j \in 1..Len(query_parts.match_clauses) :
        i # j => Introduced(i) # Introduced(j)

(***************************************************************************)
(* C27: a find call that fails (unknown kind, duplicate alias or a         *)
(* rejected filter value) leaves the session as it was: alias table, root  *)
(* alias and kind, parameter counter, stored filter parameters and match   *)
(* fragments.                                                              *)
(***************************************************************************)
C27_FailedFindLeavesSession ==
    [][(last'.op = "find" /\ last'.status # "ok")
       => UNCHANGED <<validator, root_alias, root_node_type, param_counter,
                      filter_params, query_parts>>]_vars

(***************************************************************************)
(* builder.py: the aggregate helper functions count, sum_field, avg,       *)
(* min_field, max_field.  Each returns the name of its function with the   *)
(* opening parenthesis (one piece), the field and the closing parenthesis. *)
(* The helper count is count_field here, count being the builder's method. *)
(***************************************************************************)
count_field(field) == <<"count(">> \o field \o <<")">>
sum_field(field) == <<"sum(">> \o field \o <<")">>
avg(field) == <<"avg(">> \o field \o <<")">>
min_field(field) == <<"min(">> \o field \o <<")">>
max_field(field) == <<"max(">> \o field \o <<")">>

(***************************************************************************)
(* SpecAggregate: grouped sessions whose return fields come from the       *)
(* aggregate helpers.                                                      *)
(***************************************************************************)
HelperArguments == {<<"as">>, <<"n">>}

HelperFields ==
    UNION {{count_field(a), sum_field(a), avg(a), min_field(a), max_field(a)} :
               a \in HelperArguments}

NextAggregate ==
    \/ find("AS", "as", <<>>) /\ UNCHANGED translation
    \/ \E f \in {<<>>, <<F_NAME>>, <<F_ASN>>} : group_by(f) /\ UNCHANGED translation
    \/ \E h \in HelperFields : return_fields(<<F_NAME, h>>) /\ UNCHANGED translation
    \/ to_cypher /\ UNCHANGED translation

SpecAggregate == Init /\ [][NextAggregate]_vars

\* The field references of the WITH line of a text.
WithFields(text) ==
    LET body == (SelectSeq(text, LAMBDA line : line.kw = "WITH"))[1].body
    IN {body[i].ref : i \in {k \in 1..Len(body) : body[k].t = "field"}}

(***************************************************************************)
(* C28: in the aggregation branch no return field produced by one of the   *)
(* helpers count, sum_field, avg, min_field, max_field is in the WITH      *)
(* projection.                                                             *)
(***************************************************************************)
C28_HelperFieldsNotProjected ==
    (Compiles /\ query_parts.group_by # <<>> /\ query_parts.return_fields # <<>>)
        => \A i \in 1..Len(query_parts.return_fields) :
               query_parts.return_fields[i] \in HelperFields
                   => query_parts.return_fields[i] \notin WithFields(last.text)

(***************************************************************************)
(* SpecKeys: where calls given dictionaries with several field keys,       *)
(* several operator keys under one field, and a reserved key next to other *)
(* keys.                                                                   *)
(***************************************************************************)
D_NAME == DictV(<< <<F_NAME, V_US>> >>)

KeyInputs ==
    {D_NAME,
     D_GT,
     DictV(<< <<F_NAME, V_US>>, <<F_ASN, V_ASN>> >>),
     DictV(<< <<F_ASN, DictV(<< <<">", V_ASN>>, <<"!=", V_ASN>> >>)>> >>),
     DictV(<< <<<<"AND">>, ListV(<<D_GT>>)>>, <<F_NAME, V_US>> >>),
     DictV(<< <<F_NAME, V_US>>, <<<<"NOT">>, D_GT>> >>),
     DictV(<< <<<<"OR">>, ListV(<<D_GT, D_NAME>>)>> >>)}

NextKeys ==
    \/ find("AS", "as", <<>>) /\ UNCHANGED translation
    \/ \E d \in KeyInputs : where(d) /\ UNCHANGED translation
    \/ to_cypher /\ UNCHANGED translation

SpecKeys == Init /\ [][NextKeys]_vars

RECURSIVE KeyConstraints(_)
\* What the keys of a condition dictionary ask for: a pair <<field,
\* operator>> for every operator key of every field key (a plain value
\* asking for equality), at any depth under 'AND', 'OR' and 'NOT'.
KeyConstraints(d) ==
    UNION {LET key == d.items[i][1]
               value == d.items[i][2]
           IN IF key \in {<<"AND">>, <<"OR">>}
              THEN UNION {KeyConstraints(value.items[j]) : j \in 1..Len(value.items)}
              ELSE IF key = <<"NOT">> THEN KeyConstraints(value)
              ELSE IF isinstance_dict(value)
              THEN {<<key, operator_of(value.items[j][1])>> : j \in 1..Len(value.items)}
              ELSE {<<key, "=">>}
           : i \in 1..Len(d.items)}

RECURSIVE Atoms(_)
\* The <<field, operator>> pairs of the atomic predicates of a condition.
Atoms(cond) ==
    CASE cond.type = "Q" -> {<<cond.field, cond.operator>>}
      [] cond.type = "Not" -> Atoms(cond.condition)
      [] OTHER -> UNION {Atoms(cond.conditions[i]) : i \in 1..Len(cond.conditions)}

(***************************************************************************)
(* C29: dict_to_condition ignores no key: when a where call given a        *)
(* dictionary succeeds, the condition it stored has an atomic predicate    *)
(* for every field key and every operator key of the dictionary, reserved  *)
(* keys and the keys next to them included.                                *)
(***************************************************************************)
C29_NoKeyIgnored ==
    [][\A d \in KeyInputs :
           (where(d) /\ last'.status = "ok")
           => LET stored == query_parts'.where_conditions[
                                Len(query_parts'.where_conditions)]
              IN KeyConstraints(d) \subseteq Atoms(stored)]_vars

\* The run of to_cypher on the session with its having conditions removed.
WithoutHaving ==
    compile_builder([query_parts EXCEPT !.having_conditions = <<>>],
                    param_counter, validator, filter_params)

WhereLines(text) == SelectSeq(text, LAMBDA line : line.kw = "WHERE")

(***************************************************************************)
(* C30: the having conditions reach the compiled output exactly when the   *)
(* group-by list and the return-field list are both non-empty: then the    *)
(* text has, after the WITH line, a WHERE line built from them.  In every  *)
(* other state to_cypher ends as it would without them: it succeeds on a   *)
(* session with a match fragment, and text, parameter map and parameter    *)
(* counter are those of the session without having conditions.             *)
(***************************************************************************)
C30_HavingOnlyWhenGrouped ==
    [][(last'.op = "to_cypher" /\ query_parts.having_conditions # <<>>
        /\ query_parts.match_clauses # <<>>)
       =>
       LET qp == query_parts
           n == Len(qp.match_clauses) + (IF qp.where_conditions # <<>> THEN 1 ELSE 0)
       IN IF qp.group_by # <<>> /\ qp.return_fields # <<>>
          THEN /\ last'.status = "ok"
               /\ last'.text[n + 1].kw = "WITH"
               /\ last'.text[n + 2].kw = "WHERE"
               /\ StripNames(last'.text[n + 2].body)
                      = StripNames(combine(qp.having_conditions, 0).cypher)
               /\ last'.text # WithoutHaving.text
               /\ param_counter' > WithoutHaving.pc
          ELSE /\ last'.status = "ok"
               /\ last'.text = WithoutHaving.text
               /\ last'.params = WithoutHaving.params
               /\ param_counter' = WithoutHaving.pc
               /\ Len(WhereLines(last'.text))
                      = (IF qp.where_conditions # <<>> THEN 1 ELSE 0)]_vars

\* A compiled session that has having conditions and a group-by list but no
\* return fields: no WITH line, and no parameter beyond the filter's.
C30_Witness ==
    /\ Compiles
    /\ query_parts.having_conditions # <<>>
    /\ query_parts.group_by # <<>>
    /\ query_parts.return_fields = <<>>
    /\ filter_params # <<>>
    /\ DOMAIN last.params = DOMAIN filter_params
    /\ "WITH" \notin Range(Keywords(last.text))

====
